---- MODULE Spec2Model ----
(***************************************************************************)
(* GitTracker Bot: the GitHub webhook ingestion and fan-out path, the      *)
(* input validators, the store operations, the Telegram command handlers   *)
(* and the OAuth callback (src/Bot.py, src/DataBase.py, src/Config.py).    *)
(*                                                                         *)
(* Strings are sequences of character codes (65 = 'A', 97 = 'a', 47 = '/', *)
(* 0 = NUL), byte strings are sequences of bytes.  A Python value that may *)
(* be None is a record with an isNone field.                               *)
(***************************************************************************)
EXTENDS Integers, Sequences, FiniteSets, TLC

\* ------------------------------------------------------------------ bounds

\* Longest webhook secret drawn for the signature verifier.
MaxSecretLen == 2
\* Longest raw payload drawn for the signature verifier.
MaxPayloadLen == 1
\* A webhook is taken up only while at most this many sends wait in the loop.
MaxPending == 1

\* Store operations that can be under way together.
MaxOperations == 22

\* ------------------------------------------------------- Python values

None == [isNone |-> TRUE, chars |-> <<>>]
Str(s) == [isNone |-> FALSE, chars |-> s]

\* Python truthiness of an Optional[str]: None and "" are falsy.
Truthy(v) == ~v.isNone /\ v.chars # <<>>

RECURSIVE SeqsUpTo(_, _)
SeqsUpTo(S, n) ==
    IF n = 0 THEN {<<>>}
    ELSE LET shorter == SeqsUpTo(S, n - 1)
         IN  shorter \cup {Append(s, x) : s \in {q \in shorter : Len(q) = n - 1}, x \in S}

\* ----------------------------------------------------- signature verifier

\* HMAC (RFC 2104) pads a key shorter than the hash block with NUL bytes, so
\* two keys that differ only in trailing NULs are the same key.
RECURSIVE StripNul(_)
StripNul(k) ==
    IF k # <<>> /\ k[Len(k)] = 0 THEN StripNul(SubSeq(k, 1, Len(k) - 1)) ELSE k

\* hmac.new(key, msg, hashlib.sha256).hexdigest(): SHA-256 is taken to be
\* collision free, so the digest is determined by, and determines, the
\* padded key and the message.
HmacSha256Hex(key, msg) == [key |-> StripNul(key), msg |-> msg]

\* The hex part of a header value that is no digest at all.
NoDigest == [key |-> <<-1>>, msg |-> <<>>]

\* A value of the X-Hub-Signature-256 header: absent (None), or a string made
\* of an algorithm tag and a hex part; nonascii says the string holds a
\* character outside ASCII (headers are decoded as latin-1).
SigAbsent == [isNone |-> TRUE, tag |-> "", hex |-> NoDigest, nonascii |-> FALSE]
SigString(tag, hex, nonascii) ==
    [isNone |-> FALSE, tag |-> tag, hex |-> hex, nonascii |-> nonascii]
SigEmpty == SigString("", NoDigest, FALSE)

\* `not signature`
SigFalsy(sig) == sig.isNone \/ sig = SigEmpty

\* What GitHub sends for `payload` under `secret`.
GitHubSignature(payload, secret) ==
    SigString("sha256=", HmacSha256Hex(secret, payload), FALSE)

\* The outcome of a call: a returned boolean, or a raised exception.
Returned(b) == [raised |-> "", value |-> b]
Raised(e) == [raised |-> e, value |-> FALSE]
\* No outcome yet: the call has not been made.
Pending == [raised |-> "pending", value |-> FALSE]

\* hmac.compare_digest(a, b) on two str: TypeError unless both are ASCII.
compare_digest(a, b) ==
    IF a.nonascii \/ b.nonascii THEN Raised("TypeError") ELSE Returned(a = b)

\* A verifier that forgets the algorithm tag of the expected value.
verify_untagged(payload, signature, secret) ==
    IF ~Truthy(secret) \/ SigFalsy(signature)
    THEN Returned(FALSE)
    ELSE compare_digest(SigString("", HmacSha256Hex(secret.chars, payload), FALSE),
                        signature)

\* src/Bot.py verify_webhook_signature
verify_webhook_signature(payload, signature, secret) ==
    IF ~Truthy(secret) \/ SigFalsy(signature)
    THEN Returned(FALSE)
    ELSE LET expected_signature ==
                 SigString("sha256=", HmacSha256Hex(secret.chars, payload), FALSE)
         IN  compare_digest(expected_signature, signature)

\* ------------------------------------------------------ input validation

\* Characters that str.strip() removes and int() skips.
Whitespace == {9, 10, 11, 12, 13, 28, 29, 30, 31, 32}

RECURSIVE LStrip(_)
LStrip(s) == IF s # <<>> /\ Head(s) \in Whitespace THEN LStrip(Tail(s)) ELSE s
RECURSIVE RStrip(_)
RStrip(s) ==
    IF s # <<>> /\ s[Len(s)] \in Whitespace THEN RStrip(SubSeq(s, 1, Len(s) - 1)) ELSE s
\* str.strip()
Strip(s) == LStrip(RStrip(s))

\* str.rstrip(c) for one character c
RECURSIVE RStripChar(_, _)
RStripChar(s, c) ==
    IF s # <<>> /\ s[Len(s)] = c THEN RStripChar(SubSeq(s, 1, Len(s) - 1), c) ELSE s

\* str.startswith(p)
StartsWith(s, p) == Len(s) >= Len(p) /\ SubSeq(s, 1, Len(p)) = p

\* The first position at which p occurs in s, 0 if there is none.
Find(s, p) ==
    LET at == {i \in 1..(Len(s) - Len(p) + 1) : SubSeq(s, i, i + Len(p) - 1) = p}
    IN  IF at = {} THEN 0 ELSE CHOOSE i \in at : \A j \in at : i <= j

\* `p in s`
Contains(s, p) == Find(s, p) # 0

\* s.split(p)[1] for a string s that holds p: what lies between the first
\* occurrence of p and the next one.
SplitSecond(s, p) ==
    LET rest == SubSeq(s, Find(s, p) + Len(p), Len(s))
    IN  IF Contains(rest, p) THEN SubSeq(rest, 1, Find(rest, p) - 1) ELSE rest

\* s.count(c) for one character c
Count(s, c) == Cardinality({i \in 1..Len(s) : s[i] = c})

\* "http" and "github.com/"
Http == <<104, 116, 116, 112>>
GithubComSlash == <<103, 105, 116, 104, 117, 98, 46, 99, 111, 109, 47>>
Slash == <<47>>

\* A character of the class [a-zA-Z0-9._-]
RepoChar(c) ==
    \/ c >= 97 /\ c <= 122
    \/ c >= 65 /\ c <= 90
    \/ c >= 48 /\ c <= 57
    \/ c \in {46, 95, 45}

\* re.match(r"^[a-zA-Z0-9._-]+$", s): `$` matches at the end of the string
\* and also before a newline that ends it.
MatchesRepoPattern(s) ==
    LET body == IF s # <<>> /\ s[Len(s)] = 10 THEN SubSeq(s, 1, Len(s) - 1) ELSE s
    IN  body # <<>> /\ \A i \in 1..Len(body) : RepoChar(body[i])

\* src/Bot.py validate_github_repo, for a str argument; None is invalid.
validate_github_repo(repo_input) ==
    IF repo_input = <<>> THEN None
    ELSE LET stripped == Strip(repo_input)
             isUrl == StartsWith(stripped, Http)
             repo == IF isUrl /\ Contains(stripped, GithubComSlash)
                     THEN SplitSecond(RStripChar(stripped, 47), GithubComSlash)
                     ELSE stripped
         IN  IF isUrl /\ ~Contains(stripped, GithubComSlash) THEN None
             ELSE IF Count(repo, 47) # 1 THEN None
             ELSE LET owner == SubSeq(repo, 1, Find(repo, Slash) - 1)
                      repo_name == SubSeq(repo, Find(repo, Slash) + 1, Len(repo))
                  IN  IF owner = <<>> \/ repo_name = <<>> THEN None
                      ELSE IF ~MatchesRepoPattern(owner) \/ ~MatchesRepoPattern(repo_name)
                      THEN None
                      ELSE Str(owner \o Slash \o repo_name)

\* A Python Optional[int]; value is meaningful when isNone is FALSE.
NoInt == [isNone |-> TRUE, value |-> 0]
SomeInt(n) == [isNone |-> FALSE, value |-> n]

IsDigit(c) == c >= 48 /\ c <= 57

\* The value of a string of digits and underscores, the underscores skipped.
RECURSIVE DigitsValue(_)
DigitsValue(s) ==
    IF s = <<>> THEN 0
    ELSE IF s[Len(s)] = 95 THEN DigitsValue(SubSeq(s, 1, Len(s) - 1))
    ELSE 10 * DigitsValue(SubSeq(s, 1, Len(s) - 1)) + (s[Len(s)] - 48)

\* The digit part of an int() literal: digits, with single underscores
\* between digits only.
IsDigitPart(s) ==
    /\ s # <<>>
    /\ \A i \in 1..Len(s) : IsDigit(s[i]) \/ s[i] = 95
    /\ IsDigit(s[1]) /\ IsDigit(s[Len(s)])
    /\ \A i \in 1..(Len(s) - 1) : ~(s[i] = 95 /\ s[i + 1] = 95)

\* int(s) for a str s: surrounding whitespace, an optional sign, the digit
\* part.  ok is FALSE where int() raises ValueError.
ParseInt(s) ==
    LET t == Strip(s)
        signed == t # <<>> /\ t[1] \in {43, 45}
        digits == IF signed THEN Tail(t) ELSE t
    IN  IF IsDigitPart(digits)
        THEN [ok |-> TRUE,
              value |-> IF signed /\ t[1] = 45 THEN 0 - DigitsValue(digits)
                        ELSE DigitsValue(digits)]
        ELSE [ok |-> FALSE, value |-> 0]

\* A validator that lets zero through.
validate_issue_number_nonneg(issue_str) ==
    LET issue_num == ParseInt(issue_str)
    IN  IF ~issue_num.ok THEN NoInt
        ELSE IF issue_num.value < 0 THEN NoInt
        ELSE SomeInt(issue_num.value)

\* src/Bot.py validate_issue_number, for a str argument; None is invalid.
validate_issue_number(issue_str) ==
    LET issue_num == ParseInt(issue_str)
    IN  IF ~issue_num.ok THEN NoInt
        ELSE IF issue_num.value <= 0 THEN NoInt
        ELSE SomeInt(issue_num.value)

\* ------------------------------------------------------------ the store

\* LOWER() / str.lower() on ASCII letters.
LowerChar(c) == IF c >= 65 /\ c <= 90 THEN c + 32 ELSE c
Lower(s) == [i \in 1..Len(s) |-> LowerChar(s[i])]

\* A row of User_Repo_Connections; Topic_Id 0 is NULL.
Row(user, repo, chat, type, topic) ==
    [Telegram_Id |-> user, Repo_Name |-> repo, Chat_Id |-> chat,
     Chat_Type |-> type, Topic_Id |-> topic]

RECURSIVE SelectByLowerName(_, _)
SelectByLowerName(rows, name) ==
    IF rows = <<>> THEN <<>>
    ELSE IF Lower(Head(rows).Repo_Name) = name
         THEN <<Head(rows)>> \o SelectByLowerName(Tail(rows), name)
         ELSE SelectByLowerName(Tail(rows), name)

\* The store as a handler finds it: its rows, and whether the database can
\* be reached.
Database(up, rows) == [up |-> up, rows |-> rows]

\* src/DataBase.py get_user_repo_connections_by_repo:
\* SELECT ... WHERE LOWER(Repo_Name) = repo_name.lower(); a database error is
\* logged and answered with the empty list.
get_user_repo_connections_by_repo(db, repo_name) ==
    IF db.up THEN SelectByLowerName(db.rows, Lower(repo_name)) ELSE <<>>

\* `Repo_Name = %s` and the unique key compare VARCHAR values under the
\* column's collation; the schema names none, and MySQL's default collations
\* do not distinguish letter case.
RepoNameEq(a, b) == Lower(a) = Lower(b)

\* src/DataBase.py get_user_repo_connections: the rows of one user, or every
\* row when telegram_id is falsy; a database error is answered with [].
get_user_repo_connections(db, telegram_id) ==
    IF ~db.up THEN <<>>
    ELSE IF telegram_id # 0
    THEN SelectSeq(db.rows, LAMBDA r : r.Telegram_Id = telegram_id)
    ELSE db.rows

\* UNIQUE KEY unique_connection (Telegram_Id, Repo_Name, Chat_Id, Topic_Id):
\* the positions of the rows the new row collides with.  A NULL Topic_Id
\* equals nothing, so a row without topic collides with no row.
UniqueConnectionHits(rows, row) ==
    {i \in 1..Len(rows) :
        /\ rows[i].Telegram_Id = row.Telegram_Id
        /\ RepoNameEq(rows[i].Repo_Name, row.Repo_Name)
        /\ rows[i].Chat_Id = row.Chat_Id
        /\ row.Topic_Id # 0
        /\ rows[i].Topic_Id = row.Topic_Id}

\* src/DataBase.py add_repo_connection: INSERT ... ON DUPLICATE KEY UPDATE
\* Repo_Name = VALUES(Repo_Name); a database error is answered with False.
add_repo_connection(db, telegram_id, repo_name, chat_id, chat_type, topic_id) ==
    LET row == Row(telegram_id, repo_name, chat_id, chat_type, topic_id)
        hits == UniqueConnectionHits(db.rows, row)
    IN  IF ~db.up THEN [ok |-> FALSE, rows |-> db.rows]
        ELSE IF hits = {} THEN [ok |-> TRUE, rows |-> Append(db.rows, row)]
        ELSE [ok |-> TRUE,
              rows |-> [i \in 1..Len(db.rows) |->
                            IF i \in hits
                            THEN [db.rows[i] EXCEPT !.Repo_Name = repo_name]
                            ELSE db.rows[i]]]

\* src/DataBase.py remove_repo_connection: DELETE ... WHERE Telegram_Id = %s
\* AND Repo_Name = %s AND Chat_Id = %s AND (Topic_Id = %s OR Topic_Id IS NULL);
\* `Topic_Id = NULL` holds of no row.
remove_repo_connection(db, telegram_id, repo_name, chat_id, topic_id) ==
    IF ~db.up THEN [ok |-> FALSE, rows |-> db.rows]
    ELSE [ok |-> TRUE,
          rows |-> SelectSeq(db.rows, LAMBDA r :
                       ~( /\ r.Telegram_Id = telegram_id
                          /\ RepoNameEq(r.Repo_Name, repo_name)
                          /\ r.Chat_Id = chat_id
                          /\ \/ (topic_id # 0 /\ r.Topic_Id = topic_id)
                             \/ r.Topic_Id = 0 ))]

\* A row of Users.
UserRow(telegram_id, github_username, github_token) ==
    [Telegram_Id |-> telegram_id, Github_Username |-> github_username,
     Github_Token |-> github_token]

\* A save that keeps the row it finds.
save_user_keep(db, telegram_id, github_username, github_token) ==
    LET hits == {i \in 1..Len(db.rows) : db.rows[i].Telegram_Id = telegram_id}
    IN  IF ~db.up THEN [ok |-> FALSE, rows |-> db.rows]
        ELSE IF hits = {}
        THEN [ok |-> TRUE,
              rows |-> Append(db.rows, UserRow(telegram_id, github_username, github_token))]
        ELSE [ok |-> TRUE, rows |-> db.rows]

\* src/DataBase.py save_user: INSERT ... ON DUPLICATE KEY UPDATE of username
\* and token, Telegram_Id being UNIQUE; a database error is answered with
\* False.
save_user(db, telegram_id, github_username, github_token) ==
    LET hits == {i \in 1..Len(db.rows) : db.rows[i].Telegram_Id = telegram_id}
    IN  IF ~db.up THEN [ok |-> FALSE, rows |-> db.rows]
        ELSE IF hits = {}
        THEN [ok |-> TRUE,
              rows |-> Append(db.rows, UserRow(telegram_id, github_username, github_token))]
        ELSE [ok |-> TRUE,
              rows |-> [i \in 1..Len(db.rows) |->
                            IF i \in hits
                            THEN UserRow(telegram_id, github_username, github_token)
                            ELSE db.rows[i]]]

\* src/DataBase.py get_token: the user's token, 0 for None; a database error
\* is answered with None.
get_token(db, telegram_id) ==
    LET hits == {i \in 1..Len(db.rows) : db.rows[i].Telegram_Id = telegram_id}
    IN  IF ~db.up \/ hits = {} THEN 0
        ELSE db.rows[CHOOSE i \in hits : \A j \in hits : i <= j].Github_Token

\* ------------------------------------------------------ connection pool

\* PooledDB(..., maxconnections=20, blocking=True, ...).
maxconnections == 20
blocking == TRUE

\* self.pool: connections counts the connections checked out, holding the
\* operations inside `with self.get_connection()`, waiting the operations
\* blocked in self.pool.connection(); event is what happened last.
Pool(n, holding, waiting, event) ==
    [connections |-> n, holding |-> holding, waiting |-> waiting, event |-> event]

\* self.pool.connection() of an arriving operation; reachable: the pool can
\* hand out a working connection.  Otherwise conn stays None, the error is
\* logged and raised, and `finally` has nothing to close.
Checkout(p, reachable) ==
    IF p.connections >= maxconnections
    THEN IF blocking
         THEN Pool(p.connections, p.holding, p.waiting + 1, "waits")
         ELSE Pool(p.connections, p.holding, p.waiting, "TooManyConnections")
    ELSE IF reachable
         THEN Pool(p.connections + 1, p.holding + 1, p.waiting, "checked_out")
         ELSE Pool(p.connections, p.holding, p.waiting, "connection_error")

\* A `finally` that closes the connection only after a body that returned.
CloseOnSuccess(p, raised) ==
    Pool(IF raised THEN p.connections ELSE p.connections - 1,
         p.holding - 1, p.waiting, IF raised THEN "raised" ELSE "returned")

\* get_connection after the yield: `except Exception: log, raise` and
\* `finally: if conn: conn.close()`, which gives the connection back.
Close(p, raised) ==
    Pool(p.connections - 1, p.holding - 1, p.waiting,
         IF raised THEN "raised" ELSE "returned")

\* ------------------------------------------------------ webhook requests

SupportedEvents == {"push", "pull_request", "issues", "create", "delete", "release"}
\* X-GitHub-Event: a supported type, another type, or no header ("None").
EventTypes == SupportedEvents \cup {"ping", "None"}

\* data.get("repository", {}).get("full_name"), by the shape of the payload's
\* repository member: "absent" (no such key), "null" (JSON null), "noname" (an
\* object without full_name), "named" (an object with a full_name string).
Repository(shape, name) == [shape |-> shape, full_name |-> name]
RepoAbsent == Repository("absent", <<>>)
RepoNull == Repository("null", <<>>)
RepoNoName == Repository("noname", <<>>)

\* A request body.  kind: "invalid" (not JSON, or no bytes at all), "falsy"
\* (JSON that Python takes for false: {}, [], null, 0), "nonobject" (a non-empty
\* JSON list, string or number), "object".  fields describes the other members
\* the handler of the event reads (action; ref_type and ref; commits): "ok",
\* "missing", or "badshape" (present, of a type the formatter cannot use).
Body(kind, repository, fields) ==
    [kind |-> kind, repository |-> repository, fields |-> fields]

Response(status, body) == [status |-> status, body |-> body]
NoResponse == Response(0, "")

LogLine(event) == [event |-> event, i |-> 0]
\* "Failed To Get Connections For Repo", logged by a lookup that failed.
LookupLog(db) == IF db.up THEN {} ELSE {LogLine("FailedToGetConnections")}
\* "Failed To Send ... Message To Chat": the i-th connection of the fan-out.
SendFailedLine(i) == [event |-> "FailedToSend", i |-> i]

\* What a handler has decided when it returns or enters its fan-out loop.
\* loop: the for loop over connections is entered; formatFails: the
\* per-connection formatter raises.
Outcome(resp, log, lookups, loop, conns, formatFails) ==
    [resp |-> resp, log |-> log, lookups |-> lookups, loop |-> loop,
     conns |-> conns, formatFails |-> formatFails]
Returns(resp, log, lookups) == Outcome(resp, log, lookups, FALSE, <<>>, FALSE)

\* data.get("repository", {}).get("full_name") raises AttributeError when data
\* is no dict or its repository member is null.
RepoLookupRaises(data) == data.kind = "nonobject" \/ data.repository.shape = "null"
RepoNameMissing(data) == data.repository.shape \in {"absent", "noname"}

\* src/Bot.py handle_push_event, up to its for loop
handle_push_event(data, db) ==
    IF RepoLookupRaises(data)
    THEN Returns(Response(500, "Push Processing Failed"), {LogLine("HandlingError")}, 0)
    ELSE IF RepoNameMissing(data)
    THEN Returns(Response(400, "Missing Repository"), {LogLine("MissingRepository")}, 0)
    ELSE LET connections ==
                 get_user_repo_connections_by_repo(db, data.repository.full_name)
         IN  IF connections = <<>>
             THEN Returns(Response(200, "No Connections"),
                          {LogLine("NoConnections")} \cup LookupLog(db), 1)
             ELSE IF data.fields = "missing"
             THEN Returns(Response(200, "No Commits"), {LogLine("NoCommits")}, 1)
             ELSE Outcome(NoResponse, {}, 1, TRUE, connections, data.fields = "badshape")

\* src/Bot.py handle_pull_request_event, handle_issues_event and
\* handle_release_event, up to their for loop; what names the handler in its
\* error body.
handle_action_event(what, data, db) ==
    IF RepoLookupRaises(data)
    THEN Returns(Response(500, what), {LogLine("HandlingError")}, 0)
    ELSE IF RepoNameMissing(data) \/ data.fields = "missing"
    THEN Returns(Response(400, "Missing Fields"), {LogLine("MissingFields")}, 0)
    ELSE LET connections ==
                 get_user_repo_connections_by_repo(db, data.repository.full_name)
         IN  Outcome(NoResponse, LookupLog(db), 1, TRUE, connections,
                     data.fields = "badshape")

handle_pull_request_event(data, db) ==
    handle_action_event("PR Processing Failed", data, db)
handle_issues_event(data, db) ==
    handle_action_event("Issue Processing Failed", data, db)
handle_release_event(data, db) ==
    handle_action_event("Release Processing Failed", data, db)

\* A create or delete handler without its outer try: what raises in it
\* leaves it, and the handler returns no response.
handle_ref_event_unguarded(what, data, db) ==
    IF RepoLookupRaises(data)
    THEN Returns(Response(0, "AttributeError"), {}, 0)
    ELSE IF RepoNameMissing(data) \/ data.fields = "missing"
    THEN Returns(Response(400, "Missing Fields"), {LogLine("MissingFields")}, 0)
    ELSE LET connections ==
                 get_user_repo_connections_by_repo(db, data.repository.full_name)
         IN  IF data.fields = "badshape"
             THEN Returns(Response(0, "AttributeError"), LookupLog(db), 1)
             ELSE Outcome(NoResponse, LookupLog(db), 1, TRUE, connections, FALSE)

\* src/Bot.py handle_create_event and handle_delete_event, up to their for
\* loop: the message is formatted once, before the loop and outside its try.
handle_ref_event(what, data, db) ==
    IF RepoLookupRaises(data)
    THEN Returns(Response(500, what), {LogLine("HandlingError")}, 0)
    ELSE IF RepoNameMissing(data) \/ data.fields = "missing"
    THEN Returns(Response(400, "Missing Fields"), {LogLine("MissingFields")}, 0)
    ELSE LET connections ==
                 get_user_repo_connections_by_repo(db, data.repository.full_name)
         IN  IF data.fields = "badshape"
             THEN Returns(Response(500, what),
                          {LogLine("HandlingError")} \cup LookupLog(db), 1)
             ELSE Outcome(NoResponse, LookupLog(db), 1, TRUE, connections, FALSE)

handle_create_event(data, db) ==
    handle_ref_event("Create Processing Failed", data, db)
handle_delete_event(data, db) ==
    handle_ref_event("Delete Processing Failed", data, db)

\* A request: the X-GitHub-Event and X-Hub-Signature-256 headers and the body.
\* request.get_data() is the body as sent, request.get_json() its parse.
Request(event_type, signature, body) ==
    [event_type |-> event_type, signature |-> signature, body |-> body]

\* A dispatch that refuses the event types it has no handler for.
DispatchRejectsUnknown(event_type, data, db) ==
    CASE event_type = "push" -> handle_push_event(data, db)
      [] event_type = "pull_request" -> handle_pull_request_event(data, db)
      [] event_type = "issues" -> handle_issues_event(data, db)
      [] event_type = "create" -> handle_create_event(data, db)
      [] event_type = "delete" -> handle_delete_event(data, db)
      [] event_type = "release" -> handle_release_event(data, db)
      [] OTHER -> Returns(Response(400, "Unsupported Event"), {LogLine("Ignored")}, 0)

\* The dispatch on the event type, after the payload is parsed.
Dispatch(event_type, data, db) ==
    CASE event_type = "push" -> handle_push_event(data, db)
      [] event_type = "pull_request" -> handle_pull_request_event(data, db)
      [] event_type = "issues" -> handle_issues_event(data, db)
      [] event_type = "create" -> handle_create_event(data, db)
      [] event_type = "delete" -> handle_delete_event(data, db)
      [] event_type = "release" -> handle_release_event(data, db)
      [] OTHER -> Returns(Response(200, "ignored"), {LogLine("Ignored")}, 0)

\* The parse of the payload and what follows it.
ParseAndDispatch(r, db) ==
    IF r.body.kind = "invalid"
    THEN Returns(Response(400, "Invalid JSON"), {LogLine("JsonParseFailed")}, 0)
    ELSE IF r.body.kind = "falsy"
    THEN Returns(Response(400, "Empty Payload"), {LogLine("EmptyPayload")}, 0)
    ELSE Dispatch(r.event_type, r.body, db)

\* A handler that answers a request without signature header as malformed.
WebhookMissingSignature400(r, secret, db) ==
    IF Truthy(secret)
    THEN IF r.signature.isNone
         THEN Returns(Response(400, "Missing Signature"),
                      {LogLine("InvalidSignature")}, 0)
         ELSE LET v == verify_webhook_signature(r.body, r.signature, secret)
              IN  IF v.raised # ""
                  THEN Returns(Response(500, "Internal Server Error"),
                               {LogLine("WebhookProcessingError")}, 0)
                  ELSE IF ~v.value
                  THEN Returns(Response(401, "Invalid Signature"),
                               {LogLine("InvalidSignature")}, 0)
                  ELSE ParseAndDispatch(r, db)
    ELSE ParseAndDispatch(r, db)

\* src/Bot.py Webhook, up to the fan-out loop of the event's handler.
WebhookOutcome(r, secret, db) ==
    IF Truthy(secret)
    THEN LET v == verify_webhook_signature(r.body, r.signature, secret)
         IN  IF v.raised # ""
             THEN Returns(Response(500, "Internal Server Error"),
                          {LogLine("WebhookProcessingError")}, 0)
             ELSE IF ~v.value
             THEN Returns(Response(401, "Invalid Signature"),
                          {LogLine("InvalidSignature")}, 0)
             ELSE ParseAndDispatch(r, db)
    ELSE ParseAndDispatch(r, db)

\* ------------------------------------------------------ command handlers

\* src/Bot.py validate_comment_text, for a str argument.
MaxCommentLen == 65536
\* "<script", "</script>", "javascript:", "data:", "vbscript:"
DangerousPatterns ==
    { <<60, 115, 99, 114, 105, 112, 116>>,
      <<60, 47, 115, 99, 114, 105, 112, 116, 62>>,
      <<106, 97, 118, 97, 115, 99, 114, 105, 112, 116, 58>>,
      <<100, 97, 116, 97, 58>>,
      <<118, 98, 115, 99, 114, 105, 112, 116, 58>> }
validate_comment_text(text) ==
    IF text = <<>> THEN FALSE
    ELSE LET stripped == Strip(text)
         IN  IF Len(stripped) = 0 \/ Len(stripped) > MaxCommentLen THEN FALSE
             ELSE \A pattern \in DangerousPatterns : ~Contains(Lower(stripped), pattern)

\* " ".join(words)
RECURSIVE Join(_)
Join(words) ==
    IF words = <<>> THEN <<>>
    ELSE IF Len(words) = 1 THEN words[1]
    ELSE words[1] \o <<32>> \o Join(Tail(words))

\* A Telegram update that carries a command: effective_user.id,
\* effective_chat.id and .type, effective_message.message_thread_id (0 for
\* None) and Context.args.
Update(user, chat_id, chat_type, thread, args) ==
    [user |-> user, chat_id |-> chat_id, chat_type |-> chat_type,
     thread |-> thread, args |-> args]

\* What the world does to one command.  db: "up", "list_fails" (the listing
\* of connections fails, the other statements work), "write_fails" (INSERT and
\* DELETE fail, the SELECTs work) or "down"; upstream: the
\* API answers "ok" (the status the command takes for success, a body as
\* documented), "badbody" (that status, a body of another shape), "fail"
\* (another status) or "timeout" (requests raises RequestException);
\* replyFails: how many of the command's reply_text calls raise.
Env(db, upstream, replyFails) ==
    [db |-> db, upstream |-> upstream, replyFails |-> replyFails]

UsersDb(env, users) == Database(env.db # "down", users)
ListDb(env, rows) == Database(env.db \in {"up", "write_fails"}, rows)
WriteDb(env, rows) == Database(env.db \in {"up", "list_fails"}, rows)

\* A handler up to its first reply_text: the steps taken, the reply it is
\* about to send (kind) or the exception raised before it (exc), the rows of
\* User_Repo_Connections it leaves, and what the upstream API answered.
Handled(steps, kind, exc, rows, upstream) ==
    [steps |-> steps, kind |-> kind, exc |-> exc, rows |-> rows, upstream |-> upstream]

\* A topic id taken from the message whatever the chat type.
TopicIdAnyChat(update) == update.thread

\* TopicId = message_thread_id if ChatType == 'supergroup' else None.
TopicId(update) == IF update.chat_type = "supergroup" THEN update.thread ELSE 0

\* src/Bot.py Start
Start(update, env, users, rows) ==
    Handled(<<>>, "welcome", "", rows, "none")

\* src/Bot.py Connect
Connect(update, env, users, rows) ==
    Handled(<<>>, "auth_link", "", rows, "none")

\* src/Bot.py SetRepo
SetRepo(update, env, users, rows) ==
    IF update.args = <<>> THEN Handled(<<"parse">>, "usage", "", rows, "none")
    ELSE LET Repo == validate_github_repo(update.args[1])
             Token == get_token(UsersDb(env, users), update.user)
             existing_connections ==
                 get_user_repo_connections(ListDb(env, rows), update.user)
             already ==
                 \E i \in 1..Len(existing_connections) :
                     /\ existing_connections[i].Repo_Name = Repo.chars
                     /\ existing_connections[i].Chat_Id = update.chat_id
                     /\ existing_connections[i].Topic_Id = TopicId(update)
             added == add_repo_connection(WriteDb(env, rows), update.user, Repo.chars,
                                          update.chat_id, update.chat_type,
                                          TopicId(update))
             stored == <<"parse", "validate", "credential", "store_read", "store_write">>
         IN  IF ~Truthy(Repo)
             THEN Handled(<<"parse", "validate">>, "invalid_repo", "", rows, "none")
             ELSE IF Token = 0
             THEN Handled(<<"parse", "validate", "credential">>, "not_connected", "",
                          rows, "none")
             ELSE IF already
             THEN Handled(<<"parse", "validate", "credential", "store_read">>,
                          "already", "", rows, "none")
             ELSE IF env.upstream = "timeout"
             THEN Handled(Append(stored, "upstream"), "", "RequestException",
                          added.rows, env.upstream)
             ELSE IF env.upstream = "fail"
             THEN Handled(Append(stored, "upstream"), "warnings", "", added.rows,
                          env.upstream)
             ELSE Handled(Append(stored, "upstream"), "success", "", added.rows,
                          env.upstream)

\* src/Bot.py GetRepo
GetRepo(update, env, users, rows) ==
    LET Connections == get_user_repo_connections(ListDb(env, rows), update.user)
    IN  Handled(<<"store_read">>, IF Connections # <<>> THEN "list" ELSE "empty", "",
                rows, "none")

\* src/Bot.py RemoveRepo
RemoveRepo(update, env, users, rows) ==
    IF update.args = <<>> THEN Handled(<<"parse">>, "usage", "", rows, "none")
    ELSE Handled(<<"parse", "store_write">>, "removed", "",
                 remove_repo_connection(WriteDb(env, rows), update.user, update.args[1],
                                        update.chat_id, TopicId(update)).rows,
                 "none")

\* src/Bot.py Comment.  The branch for a status other than 201 reads
\* error_msg inside the expression that first assigns it: UnboundLocalError.
Comment(update, env, users, rows) ==
    IF Len(update.args) < 3 THEN Handled(<<"parse">>, "usage", "", rows, "none")
    ELSE LET Repo == validate_github_repo(update.args[1])
             IssueNumber == validate_issue_number(update.args[2])
             CommentText == Join(SubSeq(update.args, 3, Len(update.args)))
             Token == get_token(UsersDb(env, users), update.user)
             called == <<"parse", "validate", "credential", "upstream">>
         IN  IF ~Truthy(Repo)
             THEN Handled(<<"parse", "validate">>, "invalid_repo", "", rows, "none")
             ELSE IF IssueNumber.isNone
             THEN Handled(<<"parse", "validate">>, "invalid_issue", "", rows, "none")
             ELSE IF ~validate_comment_text(CommentText)
             THEN Handled(<<"parse", "validate">>, "invalid_comment", "", rows, "none")
             ELSE IF Token = 0
             THEN Handled(<<"parse", "validate", "credential">>, "not_connected", "",
                          rows, "none")
             ELSE IF env.upstream = "timeout"
             THEN Handled(called, "", "RequestException", rows, env.upstream)
             ELSE IF env.upstream = "fail"
             THEN Handled(called, "", "UnboundLocalError", rows, env.upstream)
             ELSE Handled(called, "success", "", rows, env.upstream)

\* Repo = Get_Default_Repo(...) (always None), else the repository of the
\* user's first connection; "" for None.
FirstRepo(update, env, rows) ==
    LET Connections == get_user_repo_connections(ListDb(env, rows), update.user)
    IN  IF Connections # <<>> THEN Connections[1].Repo_Name ELSE <<>>

\* src/Bot.py ListWebhooks
ListWebhooks(update, env, users, rows) ==
    LET looked == <<"store_read", "credential">>
    IN  IF FirstRepo(update, env, rows) = <<>>
           \/ get_token(UsersDb(env, users), update.user) = 0
        THEN Handled(looked, "need_setup", "", rows, "none")
        ELSE IF env.upstream = "timeout"
        THEN Handled(Append(looked, "upstream"), "", "RequestException", rows, env.upstream)
        ELSE IF env.upstream = "fail"
        THEN Handled(Append(looked, "upstream"), "upstream_failed", "", rows, env.upstream)
        ELSE IF env.upstream = "badbody"
        THEN Handled(Append(looked, "upstream"), "", "KeyError", rows, env.upstream)
        ELSE Handled(Append(looked, "upstream"), "success", "", rows, env.upstream)

\* src/Bot.py DelWebhook
DelWebhook(update, env, users, rows) ==
    LET looked == <<"parse", "store_read", "credential">>
    IN  IF update.args = <<>> THEN Handled(<<"parse">>, "usage", "", rows, "none")
        ELSE IF FirstRepo(update, env, rows) = <<>>
                \/ get_token(UsersDb(env, users), update.user) = 0
        THEN Handled(looked, "need_setup", "", rows, "none")
        ELSE IF env.upstream = "timeout"
        THEN Handled(Append(looked, "upstream"), "", "RequestException", rows, env.upstream)
        ELSE IF env.upstream = "fail"
        THEN Handled(Append(looked, "upstream"), "upstream_failed", "", rows, env.upstream)
        ELSE Handled(Append(looked, "upstream"), "success", "", rows, env.upstream)

\* src/Bot.py Stats, Recent, Branches and Contributors: the same steps
\* around one GET; a body of another shape makes the formatting raise.
RepoQuery(update, env, users, rows) ==
    LET called == <<"parse", "validate", "credential", "upstream">>
    IN  IF update.args = <<>> THEN Handled(<<"parse">>, "usage", "", rows, "none")
        ELSE IF ~Truthy(validate_github_repo(update.args[1]))
        THEN Handled(<<"parse", "validate">>, "invalid_repo", "", rows, "none")
        ELSE IF get_token(UsersDb(env, users), update.user) = 0
        THEN Handled(<<"parse", "validate", "credential">>, "not_connected", "", rows,
                     "none")
        ELSE IF env.upstream = "timeout"
        THEN Handled(called, "", "RequestException", rows, env.upstream)
        ELSE IF env.upstream = "fail"
        THEN Handled(called, "upstream_failed", "", rows, env.upstream)
        ELSE IF env.upstream = "badbody"
        THEN Handled(called, "", "AttributeError", rows, env.upstream)
        ELSE Handled(called, "success", "", rows, env.upstream)

Stats(update, env, users, rows) == RepoQuery(update, env, users, rows)
Recent(update, env, users, rows) == RepoQuery(update, env, users, rows)
Branches(update, env, users, rows) == RepoQuery(update, env, users, rows)
Contributors(update, env, users, rows) == RepoQuery(update, env, users, rows)

\* The CommandHandlers registered in __main__.
Commands ==
    {"start", "connect", "setrepo", "getrepo", "removerepo", "comment",
     "listwebhooks", "delwebhook", "stats", "recent", "branches", "contributors"}

Handle(name, update, env, users, rows) ==
    CASE name = "start" -> Start(update, env, users, rows)
      [] name = "connect" -> Connect(update, env, users, rows)
      [] name = "setrepo" -> SetRepo(update, env, users, rows)
      [] name = "getrepo" -> GetRepo(update, env, users, rows)
      [] name = "removerepo" -> RemoveRepo(update, env, users, rows)
      [] name = "comment" -> Comment(update, env, users, rows)
      [] name = "listwebhooks" -> ListWebhooks(update, env, users, rows)
      [] name = "delwebhook" -> DelWebhook(update, env, users, rows)
      [] name = "stats" -> Stats(update, env, users, rows)
      [] name = "recent" -> Recent(update, env, users, rows)
      [] name = "branches" -> Branches(update, env, users, rows)
      [] name = "contributors" -> Contributors(update, env, users, rows)

\* The reply an except clause of the handler sends for an exception.
ErrorKind(name, exc) ==
    IF exc = "RequestException" THEN "network_error"
    ELSE IF exc = "KeyError" /\ name = "listwebhooks" THEN "invalid_data"
    ELSE "unexpected_error"

\* What a command has done when its handler is left.  update: the update
\* that carried it (for a callback its query and whether the database could
\* be reached); reply: the message that
\* reached the user, "none" if none did; escaped: an exception left the
\* handler; upstream: what the API answered, "none" if it was not called;
\* argValid and hadToken: whether the arguments pass the validators and the
\* user has a stored credential; status: the HTTP status of an OAuth callback.
Done(name, update, argValid, hadToken, steps, reply, escaped, upstream, status) ==
    [name |-> name, update |-> update, argValid |-> argValid, hadToken |-> hadToken,
     steps |-> steps, reply |-> reply, escaped |-> escaped, upstream |-> upstream,
     status |-> status]
NoUpdate == Update(0, 0, "", 0, <<>>)
NoCommand == Done("", NoUpdate, FALSE, FALSE, <<>>, "none", FALSE, "none", 0)

\* The handler's replies: the k-th await reply_text raises when
\* k <= replyFails.  A reply that raises inside the try block is caught by
\* `except Exception`, whose own reply is outside any try; Start has no try
\* block at all.
Replied(name, h, replyFails) ==
    LET inTry == h.exc = ""
        first == IF inTry THEN h.kind ELSE ErrorKind(name, h.exc)
    IN  IF replyFails = 0
        THEN [steps |-> Append(h.steps, "reply"), reply |-> first, escaped |-> FALSE]
        ELSE IF inTry /\ name # "start"
        THEN IF replyFails = 1
             THEN [steps |-> h.steps \o <<"reply", "reply">>,
                   reply |-> "unexpected_error", escaped |-> FALSE]
             ELSE [steps |-> h.steps \o <<"reply", "reply">>,
                   reply |-> "none", escaped |-> TRUE]
        ELSE [steps |-> Append(h.steps, "reply"), reply |-> "none", escaped |-> TRUE]

\* The arguments a command validates pass its validators.
ArgumentsValid(name, args) ==
    CASE name \in {"setrepo", "removerepo", "stats", "recent", "branches", "contributors"} ->
             args # <<>> /\ Truthy(validate_github_repo(args[1]))
      [] name = "comment" ->
             /\ Len(args) >= 3
             /\ Truthy(validate_github_repo(args[1]))
             /\ ~validate_issue_number(args[2]).isNone
             /\ validate_comment_text(Join(SubSeq(args, 3, Len(args))))
      [] OTHER -> TRUE

\* The query of GET /callback and what GitHub answers to it.  code: the code
\* parameter is present; state: the state parameter, "" for none;
\* access_token: the token of the exchange, 0 when the answer holds none;
\* login: the login of GET /user, 0 when the answer holds none; timeout: the
\* first request raises RequestException.
CallbackInput(code, state, access_token, login, timeout) ==
    [code |-> code, state |-> state, access_token |-> access_token,
     login |-> login, timeout |-> timeout]

\* A callback that does not look at what Save_User returns.
CallbackIgnoresSave(q, up, users) ==
    LET telegram_id == ParseInt(q.state)
        saved == save_user(Database(up, users), telegram_id.value, q.login,
                           q.access_token)
        Answer(status, steps, rows) == [status |-> status, steps |-> steps, rows |-> rows]
    IN  IF ~q.code \/ q.state = <<>> THEN Answer(400, <<"parse">>, users)
        ELSE IF q.timeout THEN Answer(500, <<"parse", "upstream">>, users)
        ELSE IF q.access_token = 0 THEN Answer(400, <<"parse", "upstream">>, users)
        ELSE IF q.login = 0 THEN Answer(400, <<"parse", "upstream", "upstream">>, users)
        ELSE IF ~telegram_id.ok THEN Answer(500, <<"parse", "upstream", "upstream">>, users)
        ELSE Answer(200, <<"parse", "upstream", "upstream", "store_write">>, saved.rows)

\* src/Bot.py Callback: the status returned and the rows of Users it leaves.
Callback(q, up, users) ==
    LET telegram_id == ParseInt(q.state)
        saved == save_user(Database(up, users), telegram_id.value, q.login,
                           q.access_token)
        Answer(status, steps, rows) == [status |-> status, steps |-> steps, rows |-> rows]
    IN  IF ~q.code \/ q.state = <<>> THEN Answer(400, <<"parse">>, users)
        ELSE IF q.timeout THEN Answer(500, <<"parse", "upstream">>, users)
        ELSE IF q.access_token = 0 THEN Answer(400, <<"parse", "upstream">>, users)
        ELSE IF q.login = 0 THEN Answer(400, <<"parse", "upstream", "upstream">>, users)
        ELSE IF ~telegram_id.ok THEN Answer(500, <<"parse", "upstream", "upstream">>, users)
        ELSE IF ~saved.ok
        THEN Answer(500, <<"parse", "upstream", "upstream", "store_write">>, users)
        ELSE Answer(200, <<"parse", "upstream", "upstream", "store_write">>, saved.rows)

\* ---------------------------------------------------------------- state

VARIABLES
    webhook_secret, \* Config.config.github.webhook_secret
    connections,    \* the rows of User_Repo_Connections, in insertion order
    BotLoop,        \* the global BotLoop: "None" or "loop"
    mainpc,         \* the main thread: "flask_started", "loop_assigned", "polling"
    ready,          \* the loop's scheduled send_message_to_chat coroutines
    inflight,       \* the coroutines awaiting bot.send_message
    lastSend,       \* the send that ended last, and how
    pc,             \* per HTTP thread: "idle", "fanout", "done"
    req,            \* per HTTP thread: the request being handled
    conns,          \* per HTTP thread: the handler's connections list
    idx,            \* per HTTP thread: the for loop's position in conns
    formatFails,    \* per HTTP thread: the per-connection formatter raises
    resp,           \* per HTTP thread: the response returned
    log,            \* per HTTP thread: the log lines of this request
    submitted,      \* per HTTP thread: positions in conns whose send was submitted
    lookups,        \* per HTTP thread: store lookups made for this request
    vPayload,       \* verifier call: payload argument
    vSignature,     \* verifier call: signature argument
    vSecret,        \* verifier call: secret argument
    vResult,        \* verifier call: Pending, or the outcome of the call
    users,          \* the rows of Users, in insertion order
    granted,        \* per Telegram id: its successful OAuth callbacks, and the last one
    last,           \* the command or callback being left, NoCommand between two
    fn,             \* validator call: the validator's name
    arg,            \* validator call: its argument
    ret,            \* validator call: Pending, or what the call returned
    pool            \* DatabaseManager.pool: connections out, operations in and waiting

vvars == <<vPayload, vSignature, vSecret, vResult>>
confvars == <<webhook_secret, connections>>
loopvars == <<BotLoop, mainpc, ready, inflight, lastSend>>
httpvars == <<pc, req, conns, idx, formatFails, resp, log, submitted, lookups>>
cmdvars == <<users, granted, last>>
fnvars == <<fn, arg, ret>>
poolvars == <<pool>>
vars == <<confvars, loopvars, httpvars, vvars, cmdvars, fnvars, poolvars>>

\* The threads Flask handles requests on (App.run(threaded=True)).
HttpThreads == {"h1"}

\* -------------------------------------------------------- initial states

\* 'A' 'b' '/' 'c', 'a' 'b' '/' 'c', 'a' 'B' '/' 'c', 'q' '/' 'r', 'z' '/' 'z'
NameAbc == <<65, 98, 47, 99>>
Nameabc == <<97, 98, 47, 99>>
NameaBc == <<97, 66, 47, 99>>
Nameqr == <<113, 47, 114>>
Namezz == <<122, 47, 122>>

\* Stores the program can hold: none, and two users' subscriptions of one
\* repository under two spellings, beside a subscription of another one.
FullStore ==
    << Row(1, NameAbc, 10, "supergroup", 7),
       Row(1, Nameqr, 10, "supergroup", 0),
       Row(2, Nameabc, 20, "private", 0) >>
\* Two users' subscriptions of one repository in one chat.
SharedChatStore ==
    << Row(1, Nameabc, 30, "supergroup", 0),
       Row(2, Nameabc, 30, "supergroup", 0) >>
InitStores == {<<>>, FullStore, SharedChatStore}

\* The secret GitHub signs with, and another one.
SenderSecret == <<1>>
OtherSecret == <<2>>
ConfigSecrets == {None, Str(<<>>), Str(SenderSecret)}

NoRequest == Request("None", SigAbsent, Body("invalid", RepoAbsent, "ok"))
NoSend == [conn |-> Row(0, <<>>, 0, "", 0), thread_id |-> 0, ok |-> FALSE]

InitVerifierIdle ==
    /\ vPayload = <<>>
    /\ vSignature = SigAbsent
    /\ vSecret = None
    /\ vResult = Pending

\* The Telegram ids of the users.
TelegramIds == {1, 2}
NotGranted == [n |-> 0, username |-> 0, token |-> 0]

InitCommandsIdle ==
    /\ granted = [u \in TelegramIds |-> NotGranted]
    /\ last = NoCommand

\* What a validator call returned; called is FALSE before the call.
Ret(called, isNone, chars, value) ==
    [called |-> called, isNone |-> isNone, chars |-> chars, value |-> value]
NotCalled == Ret(FALSE, TRUE, <<>>, 0)

InitValidatorIdle ==
    /\ fn = ""
    /\ arg = <<>>
    /\ ret = NotCalled

InitPoolIdle == pool = Pool(0, 0, 0, "none")

InitRuntime ==
    /\ BotLoop = "None"
    /\ mainpc = "flask_started"
    /\ ready = <<>>
    /\ inflight = <<>>
    /\ lastSend = NoSend
    /\ pc = [t \in HttpThreads |-> "idle"]
    /\ req = [t \in HttpThreads |-> NoRequest]
    /\ conns = [t \in HttpThreads |-> <<>>]
    /\ idx = [t \in HttpThreads |-> 0]
    /\ formatFails = [t \in HttpThreads |-> FALSE]
    /\ resp = [t \in HttpThreads |-> NoResponse]
    /\ log = [t \in HttpThreads |-> {}]
    /\ submitted = [t \in HttpThreads |-> {}]
    /\ lookups = [t \in HttpThreads |-> 0]

Init ==
    /\ webhook_secret \in ConfigSecrets
    /\ connections \in InitStores
    /\ users = <<>>
    /\ InitRuntime
    /\ InitVerifierIdle
    /\ InitCommandsIdle
    /\ InitValidatorIdle
    /\ InitPoolIdle

\* ------------------------------------------------------------ requests

Bodies ==
    {Body(k, RepoAbsent, "ok") : k \in {"invalid", "falsy", "nonobject"}}
    \cup {Body("object", rp, f) :
              rp \in {RepoAbsent, RepoNull, RepoNoName,
                      Repository("named", NameaBc), Repository("named", Namezz)},
              f \in {"ok", "missing", "badshape"}}

RequestSignatures(body) ==
    {SigAbsent,
     GitHubSignature(body, SenderSecret),
     GitHubSignature(body, OtherSecret),
     SigString("sha256=", HmacSha256Hex(SenderSecret, body), TRUE)}

Requests ==
    UNION {{Request(e, sg, b) : e \in EventTypes, sg \in RequestSignatures(b)} :
               b \in Bodies}

\* --------------------------------------------------- the HTTP threads

Set(f, t, v) == [f EXCEPT ![t] = v]

\* src/Bot.py Webhook and the event's handler, from the request to the
\* response or to the handler's for loop; up: the database can be reached.
Webhook(t, r, up) ==
    /\ pc[t] = "idle"
    /\ Len(ready) + Len(inflight) <= MaxPending
    /\ LET o == WebhookOutcome(r, webhook_secret, Database(up, connections))
       IN  /\ req' = Set(req, t, r)
           /\ log' = Set(log, t, {LogLine("Received")} \cup o.log)
           /\ lookups' = Set(lookups, t, o.lookups)
           /\ conns' = Set(conns, t, o.conns)
           /\ formatFails' = Set(formatFails, t, o.formatFails)
           /\ idx' = Set(idx, t, IF o.loop THEN 1 ELSE 0)
           /\ resp' = Set(resp, t, o.resp)
           /\ pc' = Set(pc, t, IF o.loop THEN "fanout" ELSE "done")
    /\ submitted' = Set(submitted, t, {})
    /\ UNCHANGED <<confvars, loopvars, vvars, cmdvars, fnvars, poolvars>>

\* An iteration whose exception escapes the loop and reaches the handler's
\* outer except.
IterationFailedAborts(t) ==
    /\ log' = Set(log, t, log[t] \cup {LogLine("HandlingError")})
    /\ resp' = Set(resp, t, Response(500, "Processing Failed"))
    /\ pc' = Set(pc, t, "done")
    /\ UNCHANGED <<idx, ready, submitted>>

\* An iteration whose exception is swallowed without a log line.
IterationFailedSilently(t) ==
    /\ idx' = Set(idx, t, idx[t] + 1)
    /\ UNCHANGED <<pc, resp, ready, submitted, log>>

\* The for loop's `except Exception as e: logger.error(...)`: the error is
\* logged and the loop goes on with the next connection.
IterationFailed(t) ==
    /\ log' = Set(log, t, log[t] \cup {SendFailedLine(idx[t])})
    /\ idx' = Set(idx, t, idx[t] + 1)
    /\ UNCHANGED <<pc, resp, ready, submitted>>

\* asyncio.run_coroutine_threadsafe(send_message_to_chat(...), BotLoop) with
\* BotLoop set: loop.call_soon_threadsafe schedules the coroutine and returns.
\* watched marks the one delivery that is followed from its submission on.
IterationSubmits(t) ==
    /\ ready' = Append(ready, [conn |-> conns[t][idx[t]], by |-> t, watched |-> FALSE])
    /\ submitted' = Set(submitted, t, submitted[t] \cup {idx[t]})
    /\ idx' = Set(idx, t, idx[t] + 1)
    /\ UNCHANGED <<pc, resp, log>>

\* One iteration of a handler's `for connection in connections`.  The
\* formatter raises on a payload it cannot use; run_coroutine_threadsafe
\* raises AttributeError while BotLoop is None.
FanOutStep(t) ==
    /\ pc[t] = "fanout"
    /\ idx[t] <= Len(conns[t])
    /\ IF formatFails[t] \/ BotLoop = "None"
       THEN IterationFailed(t)
       ELSE IterationSubmits(t)
    /\ UNCHANGED <<confvars, BotLoop, mainpc, inflight, lastSend, vvars, cmdvars, fnvars, poolvars>>
    /\ UNCHANGED <<req, conns, formatFails, lookups>>

\* A handler that waits for the sends it submitted (future.result()).
RespondAfterSends(t) ==
    /\ pc[t] = "fanout"
    /\ idx[t] > Len(conns[t])
    /\ \A i \in 1..Len(ready) : ready[i].by # t
    /\ \A i \in 1..Len(inflight) : inflight[i].by # t
    /\ resp' = Set(resp, t, Response(200, "Processed"))
    /\ pc' = Set(pc, t, "done")
    /\ UNCHANGED <<confvars, loopvars, vvars, cmdvars, fnvars, poolvars>>
    /\ UNCHANGED <<req, conns, idx, formatFails, log, submitted, lookups>>

\* `return jsonify({"status": "Processed"}), 200` after the for loop.
Respond(t) ==
    /\ pc[t] = "fanout"
    /\ idx[t] > Len(conns[t])
    /\ resp' = Set(resp, t, Response(200, "Processed"))
    /\ pc' = Set(pc, t, "done")
    /\ UNCHANGED <<confvars, loopvars, vvars, cmdvars, fnvars, poolvars>>
    /\ UNCHANGED <<req, conns, idx, formatFails, log, submitted, lookups>>

\* The response is out; the thread is free for the next request.
Finish(t) ==
    /\ pc[t] = "done"
    /\ pc' = Set(pc, t, "idle")
    /\ req' = Set(req, t, NoRequest)
    /\ conns' = Set(conns, t, <<>>)
    /\ idx' = Set(idx, t, 0)
    /\ formatFails' = Set(formatFails, t, FALSE)
    /\ resp' = Set(resp, t, NoResponse)
    /\ log' = Set(log, t, {})
    /\ submitted' = Set(submitted, t, {})
    /\ lookups' = Set(lookups, t, 0)
    /\ UNCHANGED <<confvars, loopvars, vvars, cmdvars, fnvars, poolvars>>

\* ------------------------------------------- the main thread and the loop

\* src/Bot.py __main__: BotLoop = asyncio.get_event_loop(), after the Flask
\* thread was started.
AssignBotLoop ==
    /\ mainpc = "flask_started"
    /\ BotLoop' = "loop"
    /\ mainpc' = "loop_assigned"
    /\ UNCHANGED <<confvars, ready, inflight, lastSend, httpvars, vvars, cmdvars, fnvars, poolvars>>

\* A run_polling that runs a loop of its own: what was scheduled on BotLoop
\* before is never run.
RunPollingOnNewLoop ==
    /\ mainpc = "loop_assigned"
    /\ mainpc' = "polling"
    /\ ready' = <<>>
    /\ UNCHANGED <<confvars, BotLoop, inflight, lastSend, httpvars, vvars, cmdvars, fnvars, poolvars>>

\* ApplicationInstance.run_polling(): the loop starts to run.
RunPolling ==
    /\ mainpc = "loop_assigned"
    /\ mainpc' = "polling"
    /\ UNCHANGED <<confvars, BotLoop, ready, inflight, lastSend, httpvars, vvars, cmdvars, fnvars, poolvars>>

\* src/Bot.py send_message_to_chat: message_thread_id, 0 for none.
MessageThreadId(connection) ==
    IF connection.Topic_Id # 0 /\ connection.Chat_Type = "supergroup"
    THEN connection.Topic_Id
    ELSE 0

\* The loop runs a scheduled send_message_to_chat up to its await.
StartSend ==
    /\ mainpc = "polling"
    /\ ready # <<>>
    /\ inflight' = Append(inflight, Head(ready))
    /\ ready' = Tail(ready)
    /\ UNCHANGED <<confvars, BotLoop, mainpc, lastSend, httpvars, vvars, cmdvars, fnvars, poolvars>>

\* A send that is scheduled again when bot.send_message raises.
FinishSendRequeues(i, ok) ==
    /\ i \in 1..Len(inflight)
    /\ lastSend' = [conn |-> inflight[i].conn,
                    thread_id |-> MessageThreadId(inflight[i].conn), ok |-> ok]
    /\ inflight' = SubSeq(inflight, 1, i - 1) \o SubSeq(inflight, i + 1, Len(inflight))
    /\ ready' = IF ok THEN ready ELSE Append(ready, inflight[i])
    /\ UNCHANGED <<confvars, BotLoop, mainpc, httpvars, vvars, cmdvars, fnvars, poolvars>>

\* An awaited bot.send_message ends: it returns, or it raises and
\* send_message_to_chat logs the failure.
FinishSend(i, ok) ==
    /\ i \in 1..Len(inflight)
    /\ lastSend' = [conn |-> inflight[i].conn,
                    thread_id |-> MessageThreadId(inflight[i].conn), ok |-> ok]
    /\ inflight' = SubSeq(inflight, 1, i - 1) \o SubSeq(inflight, i + 1, Len(inflight))
    /\ UNCHANGED <<confvars, BotLoop, mainpc, ready, httpvars, vvars, cmdvars, fnvars, poolvars>>

Next ==
    \/ \E t \in HttpThreads, r \in Requests, up \in BOOLEAN : Webhook(t, r, up)
    \/ \E t \in HttpThreads : FanOutStep(t)
    \/ \E t \in HttpThreads : Respond(t)
    \/ \E t \in HttpThreads : Finish(t)
    \/ AssignBotLoop
    \/ RunPolling
    \/ StartSend
    \/ \E i \in 1..Len(inflight), ok \in BOOLEAN : FinishSend(i, ok)

Spec == Init /\ [][Next]_vars

\* ------------------------------------------------- verifier, as a function

SecretChars == {0, 1, 2}
Secrets == {None} \cup {Str(s) : s \in SeqsUpTo(SecretChars, MaxSecretLen)}
PayloadBytes == {1, 2}
Payloads == SeqsUpTo(PayloadBytes, MaxPayloadLen)

\* Signature header values: absent, empty, text that is no signature, a
\* digest under another algorithm tag, a value with a non-ASCII character,
\* and the signature GitHub computes for any payload under any secret.
Signatures ==
    {SigAbsent, SigEmpty, SigString("abc", NoDigest, FALSE)}
    \cup {SigString("sha256=", NoDigest, TRUE)}
    \cup {GitHubSignature(p, s.chars) : p \in Payloads, s \in Secrets \ {None}}
    \cup {SigString("sha1=", HmacSha256Hex(s.chars, p), FALSE) :
              p \in Payloads, s \in Secrets \ {None}}

InitVerify ==
    /\ webhook_secret = None
    /\ connections = <<>>
    /\ users = <<>>
    /\ InitRuntime
    /\ InitCommandsIdle
    /\ InitValidatorIdle
    /\ InitPoolIdle
    /\ vPayload \in Payloads
    /\ vSignature \in Signatures
    /\ vSecret \in Secrets
    /\ vResult = Pending

\* A call verify_webhook_signature(vPayload, vSignature, vSecret).
CallVerify ==
    /\ vResult = Pending
    /\ vResult' = verify_webhook_signature(vPayload, vSignature, vSecret)
    /\ UNCHANGED <<vPayload, vSignature, vSecret, confvars, loopvars, httpvars, cmdvars, fnvars, poolvars>>

NextVerify == CallVerify

SpecVerify == InitVerify /\ [][NextVerify]_vars

\* ------------------------------------------------ validators, as functions

\* Longest repository argument drawn after the optional URL prefix.
MaxRepoLen == 4
\* Longest issue number argument drawn.
MaxIssueLen == 3

\* 'a', 'Z', '.', '/', ' ', newline
RepoAlphabet == {97, 90, 46, 47, 32, 10}
\* "https://github.com/" and "http://x/"
HttpsGithubCom == Http \o <<115, 58, 47, 47>> \o GithubComSlash
HttpElsewhere == Http \o <<58, 47, 47, 120, 47>>
\* "https://github.com/a/b/", "a/b/c", "a b/c"
UrlAB == HttpsGithubCom \o <<97, 47, 98, 47>>
PathABC == <<97, 47, 98, 47, 99>>
SpaceABC == <<97, 32, 98, 47, 99>>
RepoInputs ==
    {prefix \o tail : prefix \in {<<>>, Http, HttpsGithubCom, HttpElsewhere},
                      tail \in SeqsUpTo(RepoAlphabet, MaxRepoLen)}
    \cup {UrlAB, PathABC, SpaceABC}

\* '0', '2', '4', '-', '+', ' ', '_', 'x'
IssueAlphabet == {48, 50, 52, 45, 43, 32, 95, 120}
IssueInputs == SeqsUpTo(IssueAlphabet, MaxIssueLen)

InitValidate ==
    /\ webhook_secret = None
    /\ connections = <<>>
    /\ users = <<>>
    /\ InitRuntime
    /\ InitVerifierIdle
    /\ InitCommandsIdle
    /\ \/ fn = "validate_github_repo" /\ arg \in RepoInputs
       \/ fn = "validate_issue_number" /\ arg \in IssueInputs
    /\ ret = NotCalled
    /\ InitPoolIdle

\* A call validate_github_repo(arg).
CallValidateRepo ==
    /\ fn = "validate_github_repo"
    /\ ~ret.called
    /\ LET Repo == validate_github_repo(arg)
       IN  ret' = Ret(TRUE, Repo.isNone, Repo.chars, 0)
    /\ UNCHANGED <<fn, arg, confvars, loopvars, httpvars, vvars, cmdvars, poolvars>>

\* A call validate_issue_number(arg).
CallValidateIssue ==
    /\ fn = "validate_issue_number"
    /\ ~ret.called
    /\ LET IssueNumber == validate_issue_number(arg)
       IN  ret' = Ret(TRUE, IssueNumber.isNone, <<>>, IssueNumber.value)
    /\ UNCHANGED <<fn, arg, confvars, loopvars, httpvars, vvars, cmdvars, poolvars>>

NextValidate == CallValidateRepo \/ CallValidateIssue

SpecValidate == InitValidate /\ [][NextValidate]_vars

\* ------------------------------------------------ the pool, under load

\* A store operation enters `with self.get_connection() as conn`.
BeginOperation(reachable) ==
    /\ pool.holding + pool.waiting < MaxOperations
    /\ pool' = Checkout(pool, reachable)
    /\ UNCHANGED <<confvars, loopvars, httpvars, vvars, cmdvars, fnvars>>

\* A blocked self.pool.connection() is notified and finds a connection free.
WakeOperation(reachable) ==
    /\ pool.waiting > 0
    /\ pool.connections < maxconnections
    /\ pool' = Checkout(Pool(pool.connections, pool.holding, pool.waiting - 1, pool.event),
                        reachable)
    /\ UNCHANGED <<confvars, loopvars, httpvars, vvars, cmdvars, fnvars>>

\* The body of the with statement ends: it returns or it raises.
EndOperation(raised) ==
    /\ pool.holding > 0
    /\ pool' = Close(pool, raised)
    /\ UNCHANGED <<confvars, loopvars, httpvars, vvars, cmdvars, fnvars>>

InitPool ==
    /\ webhook_secret = None
    /\ connections = <<>>
    /\ users = <<>>
    /\ InitRuntime
    /\ InitVerifierIdle
    /\ InitCommandsIdle
    /\ InitValidatorIdle
    /\ InitPoolIdle

NextPool ==
    \/ \E reachable \in BOOLEAN : BeginOperation(reachable)
    \/ \E reachable \in BOOLEAN : WakeOperation(reachable)
    \/ \E raised \in BOOLEAN : EndOperation(raised)

SpecPool == InitPool /\ [][NextPool]_vars

\* ------------------------------------------------- commands and callbacks

\* Most rows of User_Repo_Connections a command may leave.
MaxRows == 2
\* Most successful OAuth callbacks followed per user.
MaxCallbacks == 2

\* A command arrives (the updates are handled one after the other, on the
\* loop run_polling runs) and its handler runs until it is left.
Command(name, update, env) ==
    /\ mainpc = "polling"
    /\ last = NoCommand
    /\ LET h == Handle(name, update, env, users, connections)
           r == Replied(name, h, env.replyFails)
       IN  /\ Len(h.rows) <= MaxRows
           /\ connections' = h.rows
           /\ last' = Done(name, update, ArgumentsValid(name, update.args),
                           get_token(Database(TRUE, users), update.user) # 0,
                           r.steps, r.reply, r.escaped, h.upstream, 0)
    /\ UNCHANGED <<webhook_secret, users, granted, loopvars, httpvars, vvars, fnvars, poolvars>>

\* The handler has been left; the next update can be taken.
CommandReturns ==
    /\ last # NoCommand
    /\ last' = NoCommand
    /\ UNCHANGED <<confvars, users, granted, loopvars, httpvars, vvars, fnvars, poolvars>>

\* src/Bot.py Callback, for one GET /callback.
CallbackRequest(q, up) ==
    /\ last = NoCommand
    /\ LET answer == Callback(q, up, users)
           telegram_id == ParseInt(q.state).value
       IN  /\ answer.status = 200 =>
                  (telegram_id \in TelegramIds /\ granted[telegram_id].n < MaxCallbacks)
           /\ users' = answer.rows
           /\ granted' = IF answer.status = 200
                         THEN [granted EXCEPT ![telegram_id] =
                                   [n |-> @.n + 1, username |-> q.login,
                                    token |-> q.access_token]]
                         ELSE granted
           /\ last' = Done("callback", [query |-> q, up |-> up], TRUE, FALSE, answer.steps,
                           "none", FALSE, "none", answer.status)
    /\ UNCHANGED <<confvars, loopvars, httpvars, vvars, fnvars, poolvars>>

\* src/Bot.py send_message_to_chat for the i-th stored subscription, as a
\* webhook handler submits it for every row its lookup returns; ok: the
\* awaited bot.send_message returns.
send_message_to_chat(i, ok) ==
    /\ mainpc = "polling"
    /\ i \in 1..Len(connections)
    /\ lastSend' = [conn |-> connections[i],
                    thread_id |-> MessageThreadId(connections[i]), ok |-> ok]
    /\ UNCHANGED <<confvars, BotLoop, mainpc, ready, inflight, httpvars, vvars,
                   cmdvars, fnvars, poolvars>>

\* GitHub tokens and logins.
Tokens == {11, 12}
Logins == {21, 22}
\* Both users have linked a GitHub account.
BothLinked == <<UserRow(1, 21, 11), UserRow(2, 22, 12)>>

\* /setrepo and /removerepo as two users send them: user 1 in a private chat
\* and in a supergroup, from a message with and without message_thread_id,
\* user 2 in the same supergroup.
StoreUpdates ==
    {Update(1, 10, "private", th, <<Nameqr>>) : th \in {0, 7}}
    \cup {Update(1, 30, "supergroup", th, <<repo>>) :
              th \in {0, 7}, repo \in {Nameabc, Nameqr}}
    \cup {Update(2, 30, "supergroup", 0, <<Nameabc>>)}
StoreEnvs ==
    {Env(db, upstream, 0) : db \in {"up", "list_fails", "write_fails"},
                            upstream \in {"ok", "fail"}}

InitStore ==
    /\ webhook_secret = None
    /\ connections = <<>>
    /\ users = BothLinked
    /\ InitRuntime
    /\ InitVerifierIdle
    /\ InitCommandsIdle
    /\ InitValidatorIdle
    /\ InitPoolIdle

NextStore ==
    \/ \E name \in {"setrepo", "removerepo"}, update \in StoreUpdates, env \in StoreEnvs :
           Command(name, update, env)
    \/ CommandReturns
    \/ AssignBotLoop
    \/ RunPolling
    \/ \E i \in 1..Len(connections), ok \in BOOLEAN : send_message_to_chat(i, ok)

SpecStore == InitStore /\ [][NextStore]_vars

\* "1", "0", "hi", "data:"
One == <<49>>
Zero == <<48>>
Hi == <<104, 105>>
DataColon == <<100, 97, 116, 97, 58>>
\* Context.args of the commands: none, a repository, a malformed one, and
\* the three arguments of /comment with one of them invalid at a time.
CommandArgs ==
    { <<>>, <<Nameabc>>, <<PathABC>>,
      <<Nameabc, One, Hi>>, <<PathABC, One, Hi>>, <<Nameabc, Zero, Hi>>,
      <<Nameabc, One, DataColon>> }
CommandUpdates == {Update(1, 10, "private", 0, args) : args \in CommandArgs}
CommandEnvs ==
    {Env(db, upstream, replyFails) :
         db \in {"up", "list_fails", "down"},
         upstream \in {"ok", "badbody", "fail", "timeout"},
         replyFails \in {0, 1, 2}}

\* A push to ab/c with one commit, unsigned.
PushRequest ==
    Request("push", SigAbsent, Body("object", Repository("named", Nameabc), "ok"))

InitCommands ==
    /\ webhook_secret = None
    /\ connections = <<>>
    /\ users \in {<<>>, <<UserRow(1, 21, 11)>>}
    /\ InitRuntime
    /\ InitVerifierIdle
    /\ InitCommandsIdle
    /\ InitValidatorIdle
    /\ InitPoolIdle

NextCommands ==
    \/ \E name \in Commands, update \in CommandUpdates, env \in CommandEnvs :
           Command(name, update, env)
    \/ CommandReturns
    \/ AssignBotLoop
    \/ RunPolling

SpecCommands == InitCommands /\ [][NextCommands]_vars

\* Commands whose arguments are valid, sent by a linked user while pushes to
\* the repository arrive.
RetryUpdates == {Update(1, 10, "private", 0, <<Nameabc, One, Hi>>)}
RetryEnvs == {Env("up", upstream, 0) : upstream \in {"ok", "badbody", "fail", "timeout"}}

InitRetry ==
    /\ webhook_secret = None
    /\ connections = <<>>
    /\ users = <<UserRow(1, 21, 11)>>
    /\ InitRuntime
    /\ InitVerifierIdle
    /\ InitCommandsIdle
    /\ InitValidatorIdle
    /\ InitPoolIdle

NextRetry ==
    \/ \E name \in Commands, update \in RetryUpdates, env \in RetryEnvs :
           Command(name, update, env)
    \/ CommandReturns
    \/ AssignBotLoop
    \/ RunPolling
    \/ \E t \in HttpThreads, up \in BOOLEAN : Webhook(t, PushRequest, up)
    \/ \E t \in HttpThreads : FanOutStep(t)
    \/ \E t \in HttpThreads : Respond(t)
    \/ \E t \in HttpThreads : Finish(t)
    \/ StartSend
    \/ \E i \in 1..Len(inflight), ok \in BOOLEAN : FinishSend(i, ok)

SpecRetry == InitRetry /\ [][NextRetry]_vars

\* ------------------------------------------- deliveries, followed to the end

\* A delivery of the queue is the followed one.
Watched(queue) == \E i \in 1..Len(queue) : queue[i].watched

\* The iteration that submits (IterationSubmits), its delivery taken as the
\* one to follow; one delivery is followed at a time.
FanOutStepWatched(t) ==
    /\ pc[t] = "fanout"
    /\ idx[t] <= Len(conns[t])
    /\ ~formatFails[t]
    /\ BotLoop # "None"
    /\ ~Watched(ready) /\ ~Watched(inflight)
    /\ ready' = Append(ready, [conn |-> conns[t][idx[t]], by |-> t, watched |-> TRUE])
    /\ submitted' = Set(submitted, t, submitted[t] \cup {idx[t]})
    /\ idx' = Set(idx, t, idx[t] + 1)
    /\ UNCHANGED <<pc, resp, log, req, conns, formatFails, lookups>>
    /\ UNCHANGED <<confvars, BotLoop, mainpc, inflight, lastSend, vvars, cmdvars, fnvars, poolvars>>

InitLive ==
    /\ webhook_secret = None
    /\ connections = FullStore
    /\ users = <<>>
    /\ InitRuntime
    /\ InitVerifierIdle
    /\ InitCommandsIdle
    /\ InitValidatorIdle
    /\ InitPoolIdle

NextLive ==
    \/ \E t \in HttpThreads, up \in BOOLEAN : Webhook(t, PushRequest, up)
    \/ \E t \in HttpThreads : FanOutStep(t)
    \/ \E t \in HttpThreads : FanOutStepWatched(t)
    \/ \E t \in HttpThreads : Respond(t)
    \/ \E t \in HttpThreads : Finish(t)
    \/ AssignBotLoop
    \/ RunPolling
    \/ StartSend
    \/ \E i \in 1..Len(inflight), ok \in BOOLEAN : FinishSend(i, ok)

\* The main thread goes on to assign BotLoop and to call run_polling, and the
\* running loop runs what is scheduled on it.
SpecLive ==
    /\ InitLive
    /\ [][NextLive]_vars
    /\ WF_vars(AssignBotLoop)
    /\ WF_vars(RunPolling)
    /\ WF_vars(StartSend)

\* The queries of GET /callback and GitHub's answers.
CallbackInputs ==
    {CallbackInput(code, state, access_token, login, timeout) :
         code \in BOOLEAN, state \in {<<>>, One, <<50>>, <<120>>},
         access_token \in {0} \cup Tokens, login \in {0} \cup Logins,
         timeout \in BOOLEAN}

InitAuth ==
    /\ webhook_secret = None
    /\ connections = <<>>
    /\ users = <<>>
    /\ InitRuntime
    /\ InitVerifierIdle
    /\ InitCommandsIdle
    /\ InitValidatorIdle
    /\ InitPoolIdle

NextAuth ==
    \/ \E q \in CallbackInputs, up \in BOOLEAN : CallbackRequest(q, up)
    \/ CommandReturns

SpecAuth == InitAuth /\ [][NextAuth]_vars

\* =============================================================== claims

SecretConfigured == Truthy(webhook_secret)

\* The signature GitHub computes for the request under the configured secret.
ExpectedSignature(r) == GitHubSignature(r.body, webhook_secret.chars)

\* The request gets past the signature check of the handler.
PassesSignatureCheck(r) == ~SecretConfigured \/ r.signature = ExpectedSignature(r)

\* The subscriptions of the request's repository, ignoring letter case.
Matching(r) ==
    get_user_repo_connections_by_repo(Database(TRUE, connections),
                                      r.body.repository.full_name)

\* The store lookup of the request did not fail.
LookupSucceeded(t) == LogLine("FailedToGetConnections") \notin log[t]

\* The handler has dealt with position i of its connections: the send was
\* submitted, or the failure was logged.
Attempted(t, i) == i \in submitted[t] \/ SendFailedLine(i) \in log[t]

\* The request is one whose handler reaches its for loop: it passes the
\* signature check, its payload is an object that names the repository and
\* holds the members the handler requires (for push: at least one commit),
\* the message of a create or delete event can be formatted, and the
\* repository has a subscription.
ReachesFanOut(r) ==
    /\ PassesSignatureCheck(r)
    /\ r.event_type \in SupportedEvents
    /\ r.body.kind = "object"
    /\ r.body.repository.shape = "named"
    /\ r.body.fields # "missing"
    /\ r.event_type \in {"create", "delete"} => r.body.fields # "badshape"
    /\ Matching(r) # <<>>

C2_AckDoesNotWaitForSends ==
    \A t \in HttpThreads :
        /\ (pc[t] = "fanout" /\ idx[t] > Len(conns[t])) => ENABLED Respond(t)
        /\ (pc[t] = "done" /\ submitted[t] # {}) => resp[t] = Response(200, "Processed")

\* C2 witness: the request is answered 200 while both its sends are still
\* scheduled on a loop that has not started to run.
C2_Witness ==
    \E t \in HttpThreads :
        /\ pc[t] = "done"
        /\ resp[t] = Response(200, "Processed")
        /\ Cardinality(submitted[t]) = 2
        /\ mainpc = "loop_assigned"
        /\ Len(ready) >= 2
        /\ inflight = <<>>

\* C3: while BotLoop is unset nothing is scheduled; each iteration of a
\* handler's loop logs its failed submission, and the request is answered
\* 200 Processed: the exception does not leave the loop.
C3_UnsetLoopDropsAndLogs ==
    BotLoop = "None" =>
        /\ ready = <<>>
        /\ \A t \in HttpThreads :
               /\ submitted[t] = {}
               /\ pc[t] \in {"fanout", "done"} /\ idx[t] > 0 =>
                      \A i \in 1..(idx[t] - 1) : SendFailedLine(i) \in log[t]
               /\ pc[t] = "done" /\ idx[t] > 0 =>
                      /\ idx[t] = Len(conns[t]) + 1
                      /\ resp[t] = Response(200, "Processed")

\* C3 witness: a webhook with two matching subscriptions was handled to its
\* response before BotLoop was assigned.
C3_Witness ==
    \E t \in HttpThreads :
        /\ BotLoop = "None"
        /\ pc[t] = "done"
        /\ Len(conns[t]) = 2
        /\ {SendFailedLine(1), SendFailedLine(2)} \subseteq log[t]
        /\ resp[t] = Response(200, "Processed")

\* C4 (as stated): with a secret configured, a present signature that is not
\* the expected one is answered 401 whatever the body, with no store lookup
\* and no submission.
C4_WrongSignatureIs401 ==
    \A t \in HttpThreads :
        ( /\ pc[t] = "done"
          /\ SecretConfigured
          /\ ~req[t].signature.isNone
          /\ req[t].signature # ExpectedSignature(req[t]) )
        => /\ resp[t].status = 401
           /\ lookups[t] = 0
           /\ submitted[t] = {}

\* C5 (as stated): with a secret configured, a request without signature
\* header is answered 400 and one with a wrong signature 401 (a wrong
\* signature being read as a well-formed one that does not match).
C5_MissingSignatureIs400 ==
    \A t \in HttpThreads :
        (pc[t] = "done" /\ SecretConfigured)
        => /\ req[t].signature.isNone => resp[t].status = 400
           /\ ( /\ ~req[t].signature.isNone
                /\ ~req[t].signature.nonascii
                /\ req[t].signature # ExpectedSignature(req[t]) )
                  => resp[t].status = 401

\* C5 (amended): with a secret configured, a request without signature
\* header is answered 401 Invalid Signature, as is every request whose
\* signature the verifier rejects; neither is answered 400.
C5_MissingSignatureIs401 ==
    \A t \in HttpThreads :
        (pc[t] = "done" /\ SecretConfigured)
        => LET r == req[t]
               rejected == verify_webhook_signature(r.body, r.signature, webhook_secret)
                               = Returned(FALSE)
           IN  /\ r.signature.isNone => rejected
               /\ rejected =>
                      /\ resp[t] = Response(401, "Invalid Signature")
                      /\ lookups[t] = 0

\* C5 witness: a request without signature header was answered 401.
C5_Witness ==
    \E t \in HttpThreads :
        /\ pc[t] = "done"
        /\ SecretConfigured
        /\ req[t].signature.isNone
        /\ resp[t].status = 401

\* C8 (as stated): without a configured secret the handler logs that it
\* skipped the verification and answers no request with 401.
C8_SkippedVerificationIsLogged ==
    \A t \in HttpThreads :
        (pc[t] = "done" /\ ~SecretConfigured)
        => /\ LogLine("VerificationSkipped") \in log[t]
           /\ resp[t].status # 401

\* C9 (as stated): a request whose event type is not a supported one is
\* answered 200 ignored and submits nothing.
C9_UnsupportedEventIgnored ==
    \A t \in HttpThreads :
        (pc[t] = "done" /\ req[t].event_type \notin SupportedEvents)
        => /\ resp[t] = Response(200, "ignored")
           /\ submitted[t] = {}

\* C9 (amended): a request of an unsupported event type that passes the
\* signature check and whose body parses to JSON that is not empty is
\* answered 200 ignored; no request of an unsupported type causes a lookup
\* or a submission.
C9_AcceptedUnsupportedEventIgnored ==
    \A t \in HttpThreads :
        (pc[t] # "idle" /\ req[t].event_type \notin SupportedEvents)
        => /\ pc[t] = "done"
           /\ lookups[t] = 0
           /\ submitted[t] = {}
           /\ (PassesSignatureCheck(req[t]) /\ req[t].body.kind \notin {"invalid", "falsy"})
                  => resp[t] = Response(200, "ignored")

\* C9 witness: a signed ping event, and a request without event header, were
\* answered 200 ignored.
C9_Witness ==
    \E t \in HttpThreads :
        /\ pc[t] = "done"
        /\ req[t].event_type \in {"ping", "None"}
        /\ SecretConfigured
        /\ resp[t] = Response(200, "ignored")

\* C10 (as stated): a supported event that gets to its handler with a JSON
\* object that holds no repository full name is answered 400, with no store
\* lookup and no submission.
C10_MissingRepositoryIs400 ==
    \A t \in HttpThreads :
        ( /\ pc[t] = "done"
          /\ req[t].event_type \in SupportedEvents
          /\ PassesSignatureCheck(req[t])
          /\ req[t].body.kind = "object"
          /\ req[t].body.repository.shape # "named" )
        => /\ resp[t].status = 400
           /\ lookups[t] = 0
           /\ submitted[t] = {}

\* ---------------------------------------------------- verifier claims

\* The signature argument was computed by GitHub over p under s.
SignedOver(p, s) == vSignature = GitHubSignature(p, s.chars)

\* C6 (as stated): under any secret the verifier accepts the signature of the
\* payload and rejects one computed over another payload or under another
\* secret.
C6_AcceptsOwnRejectsOthers ==
    (vResult # Pending /\ ~vSecret.isNone)
    => /\ SignedOver(vPayload, vSecret) => vResult = Returned(TRUE)
       /\ \A p \in Payloads, s \in Secrets \ {None} :
              (SignedOver(p, s) /\ (p # vPayload \/ s # vSecret))
                  => vResult = Returned(FALSE)

\* C6 (amended): under any secret that is not empty the verifier accepts the
\* signature of the payload, and it rejects every signature computed over
\* another payload or under another HMAC key (secrets that differ only in
\* trailing NUL characters are one key); under an empty or absent secret it
\* rejects every signature.
C6_AcceptsOwnRejectsOtherKeys ==
    /\ (vResult # Pending /\ Truthy(vSecret))
       => /\ SignedOver(vPayload, vSecret) => vResult = Returned(TRUE)
          /\ \A p \in Payloads, s \in Secrets \ {None} :
                 ( /\ SignedOver(p, s)
                   /\ (p # vPayload \/ StripNul(s.chars) # StripNul(vSecret.chars)) )
                     => vResult = Returned(FALSE)
    /\ (vResult # Pending /\ ~Truthy(vSecret)) => vResult = Returned(FALSE)

\* C6 witness: a call that accepted the payload's signature, the secret
\* being a proper one.
C6_Witness ==
    /\ vResult = Returned(TRUE)
    /\ vSecret = Str(<<1, 2>>)
    /\ vPayload # <<>>
    /\ SignedOver(vPayload, vSecret)

\* C7 (as stated): every call returns a boolean; none raises.
C7_VerifierNeverRaises == vResult = Pending \/ vResult.raised = ""


\* --------------------------------------------------- validator claims

\* C17 (as stated): validate_github_repo returns invalid or owner/name with
\* owner and name non-empty and made of characters of [a-zA-Z0-9._-] only;
\* "https://github.com/a/b/" gives "a/b", "a/b/c" and "a b/c" are invalid.
C17_RepoIsOwnerSlashName ==
    (fn = "validate_github_repo" /\ ret.called)
    => /\ ~ret.isNone =>
              /\ Count(ret.chars, 47) = 1
              /\ ret.chars[1] # 47 /\ ret.chars[Len(ret.chars)] # 47
              /\ \A i \in 1..Len(ret.chars) :
                     ret.chars[i] = 47 \/ RepoChar(ret.chars[i])
       /\ arg = UrlAB => (~ret.isNone /\ ret.chars = <<97, 47, 98>>)
       /\ arg \in {PathABC, SpaceABC} => ret.isNone

\* The digits of a string, its other characters dropped.
DigitsOf(s) == SelectSeq(s, IsDigit)

\* The string is made of digits only and some digit is not '0'.
PlainPositive(s) ==
    /\ s # <<>>
    /\ \A i \in 1..Len(s) : IsDigit(s[i])
    /\ \E i \in 1..Len(s) : s[i] # 48

\* The string denotes no positive integer: it is empty, or holds a minus
\* sign or a character that is no digit, sign, blank or underscore, or none
\* of its digits differs from '0'.
NotPositive(s) ==
    \/ s = <<>>
    \/ \E i \in 1..Len(s) : s[i] = 45 \/ ~(IsDigit(s[i]) \/ s[i] \in {43, 32, 95})
    \/ \A i \in 1..Len(s) : IsDigit(s[i]) => s[i] = 48

\* C18: validate_issue_number never raises on a string; it returns n for
\* the decimal numeral of a positive integer n, and invalid for zero, for a
\* negative number and for a non-numeric string; every integer it returns
\* is positive and is the value of the digits of its argument.
C18_IssueNumberIsPositiveOrInvalid ==
    (fn = "validate_issue_number" /\ ret.called)
    => /\ PlainPositive(arg) => (~ret.isNone /\ ret.value = DigitsValue(arg))
       /\ NotPositive(arg) => ret.isNone
       /\ ~ret.isNone => (ret.value > 0 /\ ret.value = DigitsValue(DigitsOf(arg)))

\* C18 witness: "42" was validated to 42, and "0", "-2" and "x" to invalid.
C18_Witness ==
    /\ fn = "validate_issue_number" /\ ret.called
    /\ arg = <<52, 50>>
    /\ ret = Ret(TRUE, FALSE, <<>>, 42)


\* A character of [a-zA-Z0-9._-].
IsNameChar(c) == c \in (48..57) \cup (65..90) \cup (97..122) \cup {46, 95, 45}

\* The string is owner/name, both non-empty and made of name characters.
IsOwnerSlashName(s) ==
    \E k \in 2..(Len(s) - 1) :
        /\ s[k] = 47
        /\ \A i \in (1..Len(s)) \ {k} : IsNameChar(s[i])

\* C25 (as stated): validate_github_repo accepts every owner/name whose
\* owner and name are non-empty and made of characters of [a-zA-Z0-9._-],
\* and returns it unchanged, also when the owner begins with "http".
C25_AcceptsEveryOwnerSlashName ==
    (fn = "validate_github_repo" /\ ret.called /\ IsOwnerSlashName(arg))
    => (~ret.isNone /\ ret.chars = arg)

\* ------------------------------------------------------- store claims

\* Two positions of the store hold one (user, repository, chat, topic) tuple.
SameTuple(i, j) ==
    /\ connections[i].Telegram_Id = connections[j].Telegram_Id
    /\ connections[i].Repo_Name = connections[j].Repo_Name
    /\ connections[i].Chat_Id = connections[j].Chat_Id
    /\ connections[i].Topic_Id = connections[j].Topic_Id

\* C11 (as stated): the store holds at most one subscription for each
\* (user, repository, chat, topic) tuple, also when the topic is null, and a
\* /setrepo that finds its tuple stored writes nothing and raises nothing.
C11_OneSubscriptionPerTuple ==
    /\ \A i, j \in 1..Len(connections) : SameTuple(i, j) => i = j
    /\ (last.name = "setrepo" /\ last.reply = "already")
       => (~last.escaped /\ \A k \in 1..Len(last.steps) : last.steps[k] # "store_write")

\* The (chat, thread) destination of a subscription.
Destination(row) == <<row.Chat_Id, MessageThreadId(row)>>

\* The destinations subscribed to the repository of the request, letter case
\* ignored.
SubscribedDestinations(r) ==
    {Destination(connections[i]) :
         i \in {k \in 1..Len(connections) :
                    Lower(connections[k].Repo_Name) = Lower(r.body.repository.full_name)}}

\* C12 (as stated): a supported event that went through its fan-out without
\* an error has exactly one submitted delivery for each subscribed
\* destination of its repository, and none for any other destination.
C12_OneDeliveryPerDestination ==
    \A t \in HttpThreads :
        ( /\ pc[t] = "done"
          /\ ReachesFanOut(req[t])
          /\ LookupSucceeded(t)
          /\ resp[t] = Response(200, "Processed")
          /\ \A i \in 1..Len(conns[t]) : SendFailedLine(i) \notin log[t] )
        => /\ \A d \in SubscribedDestinations(req[t]) :
                  Cardinality({i \in submitted[t] : Destination(conns[t][i]) = d}) = 1
           /\ \A i \in submitted[t] :
                  Destination(conns[t][i]) \in SubscribedDestinations(req[t])

\* C13: every stored subscription has a topic id only if its chat type is
\* supergroup, and a delivery goes into a topic thread, the subscription's,
\* only for a subscription with a topic id and chat type supergroup; every
\* other delivery goes to the chat without a thread.
C13_TopicOnlyInSupergroup ==
    /\ \A i \in 1..Len(connections) :
           connections[i].Topic_Id # 0 => connections[i].Chat_Type = "supergroup"
    /\ lastSend # NoSend =>
           /\ lastSend.thread_id # 0 =>
                  /\ lastSend.conn.Chat_Type = "supergroup"
                  /\ lastSend.thread_id = lastSend.conn.Topic_Id
           /\ (lastSend.conn.Chat_Type # "supergroup" \/ lastSend.conn.Topic_Id = 0)
                  => lastSend.thread_id = 0

\* C13 witness: a subscription of a supergroup topic and one of a private
\* chat are stored, and a delivery went into the topic's thread.
C13_Witness ==
    /\ \E i \in 1..Len(connections) :
           connections[i].Chat_Type = "supergroup" /\ connections[i].Topic_Id = 7
    /\ \E i \in 1..Len(connections) : connections[i].Chat_Type = "private"
    /\ lastSend # NoSend
    /\ lastSend.conn.Topic_Id = 7
    /\ lastSend.thread_id = 7

\* The positions of the user's rows in Users.
CredentialsOf(u) == {i \in 1..Len(users) : users[i].Telegram_Id = u}

\* C14: the store holds at most one credential per user, none before the
\* user's first successful callback and afterwards the username and token of
\* the most recent one.
C14_OneCredentialLastCallback ==
    /\ \A i \in 1..Len(users) : users[i].Telegram_Id \in TelegramIds
    /\ \A u \in TelegramIds :
           /\ Cardinality(CredentialsOf(u)) <= 1
           /\ granted[u].n = 0 => CredentialsOf(u) = {}
           /\ granted[u].n > 0 =>
                  \E i \in CredentialsOf(u) :
                      /\ users[i].Github_Username = granted[u].username
                      /\ users[i].Github_Token = granted[u].token

\* C14 witness: user 1 reconnected with another token after user 2 had
\* connected, and both credentials are stored.
C14_Witness ==
    /\ granted[1].n = 2
    /\ granted[2].n = 1
    /\ granted[1].token # granted[2].token
    /\ last.name = "callback" /\ last.status = 200
    /\ Len(users) = 2
    /\ users[1].Telegram_Id = 2

\* ----------------------------------------------------- command claims

\* The commands that take a repository, issue number or comment argument.
ArgumentCommands ==
    {"setrepo", "removerepo", "comment", "stats", "recent", "branches", "contributors"}

\* The step occurs among the steps of the command left last.
Took(step) == \E k \in 1..Len(last.steps) : last.steps[k] = step
\* Step a was taken, and before every occurrence of step b.
TookBefore(a, b) ==
    /\ Took(a)
    /\ \A k \in 1..Len(last.steps) :
           last.steps[k] = b => \E m \in 1..(k - 1) : last.steps[m] = a

\* C15 (as stated): a command with arguments validates them and requires the
\* credential before it writes to the store or calls the upstream API, and
\* replies last; with an invalid argument or without credential it neither
\* writes to the store nor calls the upstream API, and the message it leaves
\* is no success message.
C15_ValidateThenCredentialThenCall ==
    last.name \in ArgumentCommands
    => /\ (Took("store_write") \/ Took("upstream")) =>
              /\ TookBefore("validate", "store_write")
              /\ TookBefore("validate", "upstream")
              /\ TookBefore("credential", "store_write")
              /\ TookBefore("credential", "upstream")
              /\ TookBefore("validate", "credential")
       /\ Took("reply") => last.steps[Len(last.steps)] = "reply"
       /\ (~last.argValid \/ ~last.hadToken) =>
              /\ ~Took("store_write")
              /\ ~Took("upstream")
              /\ last.reply \notin {"success", "warnings", "removed"}

\* C16 (as stated): no exception escapes a command handler.
C16_NoExceptionEscapes ==
    last.name \in Commands => ~last.escaped

\* The commands that call the upstream API.
UpstreamCommands ==
    {"setrepo", "comment", "listwebhooks", "delwebhook", "stats", "recent",
     "branches", "contributors"}

\* C19 (as stated): when the upstream API answers with a non-success status
\* and the reply reaches the user, the reply reports the failure together
\* with the upstream response body.
C19_UpstreamFailureIsReported ==
    ( /\ last.name \in UpstreamCommands
      /\ last.upstream = "fail"
      /\ last.reply # "none"
      /\ Cardinality({k \in 1..Len(last.steps) : last.steps[k] = "reply"}) = 1 )
    => last.reply \in {"warnings", "upstream_failed"}


\* The sends scheduled or awaited.
PendingSends == Len(ready) + Len(inflight)

\* C20: nothing is retried.  Every step leaves a command with at most one
\* upstream request behind; no subscription whose iteration failed is
\* submitted afterwards; a send is scheduled only by one loop iteration
\* submitting a subscription it had not submitted before; and a send is
\* awaited only by taking it from the scheduled ones, so that a send that
\* failed or a request that timed out is not attempted again.
C20_NothingIsRetried ==
    [][ /\ last'.name \in Commands =>
               Cardinality({k \in 1..Len(last'.steps) : last'.steps[k] = "upstream"}) <= 1
        /\ \A t \in HttpThreads :
               \A i \in submitted'[t] : SendFailedLine(i) \notin log'[t]
        /\ Len(ready') > Len(ready) =>
               \E t \in HttpThreads :
                   /\ idx[t] \notin submitted[t]
                   /\ submitted'[t] = submitted[t] \cup {idx[t]}
                   /\ idx'[t] = idx[t] + 1
                   /\ Len(ready') = Len(ready) + 1
        /\ Len(inflight') > Len(inflight) =>
               /\ Len(ready') = Len(ready) - 1
               /\ PendingSends' = PendingSends
      ]_vars

\* C20 witness: a command whose upstream request timed out has replied with
\* the network error, and a push was submitted whose send failed, with no
\* send scheduled or awaited.
C20_Witness ==
    /\ last.name \in UpstreamCommands
    /\ last.upstream = "timeout"
    /\ last.reply = "network_error"
    /\ lastSend # NoSend
    /\ ~lastSend.ok
    /\ PendingSends = 0
    /\ \E t \in HttpThreads : pc[t] = "done" /\ submitted[t] # {}

\* C21: the bot loop processes one send at a time: at no moment are two
\* submitted sends in progress (started and awaiting bot.send_message)
\* together.
C21_OneSendAtATime == Len(inflight) <= 1

\* ---------------------------------------------------------- pool claims

\* C22: under any interleaving of store operations the connections checked
\* out never exceed maxconnections; an operation arriving when all are out
\* waits and is never refused; and the connections out are those of the
\* operations under way, so each was returned when its operation ended,
\* having returned or raised.
C22_PoolBoundedBlockingReturned ==
    /\ pool.connections <= maxconnections
    /\ pool.event # "TooManyConnections"
    /\ pool.event = "waits" => pool.waiting > 0 /\ pool.connections = maxconnections
    /\ pool.connections = pool.holding

\* C22 witness: with all connections out an operation waited, and then an
\* operation that raised gave its connection back.
C22_Witness ==
    /\ pool.waiting > 0
    /\ pool.event = "raised"
    /\ pool.connections = maxconnections - 1
    /\ pool.holding = maxconnections - 1

\* -------------------------------------------------------- webhook claims

\* The statuses a POST /webhook is answered with.
WebhookStatuses == {200, 400, 401, 500}

\* C23: every POST /webhook, whatever its headers and body, ends with a
\* response whose status is 200, 400, 401 or 500: a handler that is done has
\* returned such a response (no exception left it or a sub-handler), and a
\* handler in its loop has yet to return one and is not stuck past the end.
C23_AlwaysAnswered ==
    \A t \in HttpThreads :
        /\ pc[t] = "done" => resp[t].status \in WebhookStatuses
        /\ pc[t] = "fanout" =>
               /\ resp[t] = NoResponse
               /\ idx[t] \in 1..(Len(conns[t]) + 1)

\* C23 witness: a create or delete event whose body is a JSON value that is
\* no object, or whose ref members have an unexpected shape, was answered 500.
C23_Witness ==
    \E t \in HttpThreads :
        /\ pc[t] = "done"
        /\ req[t].event_type \in {"create", "delete"}
        /\ \/ req[t].body.kind = "nonobject"
           \/ req[t].body.kind = "object" /\ req[t].body.fields = "badshape"
                /\ req[t].body.repository.shape = "named"
        /\ resp[t].status = 500

\* ------------------------------------------------ subscribe / unsubscribe

\* The row is the subscription (user, repository, chat, topic) of the update.
IsSubscriptionOf(row, update) ==
    /\ update.args # <<>>
    /\ row.Telegram_Id = update.user
    /\ row.Repo_Name = update.args[1]
    /\ row.Chat_Id = update.chat_id
    /\ row.Topic_Id = (IF update.chat_type = "supergroup" THEN update.thread ELSE 0)

\* The stored subscriptions other than the one of the update, in their order.
OtherSubscriptions(rows, update) ==
    SelectSeq(rows, LAMBDA row : ~IsSubscriptionOf(row, update))

\* C24 (as stated): /removerepo R by user U in chat C and topic T (or no
\* topic) leaves every stored subscription other than (U, R, C, T) as it was.
C24_RemoveRepoDeletesOnlyItsTuple ==
    [][ (last = NoCommand /\ last'.name = "removerepo")
            => OtherSubscriptions(connections', last'.update)
                   = OtherSubscriptions(connections, last'.update) ]_vars

\* The repository a /setrepo argument names: owner/name, of a URL or as given.
NamedRepository(update) == validate_github_repo(update.args[1]).chars

\* The topic a command is sent in: the thread of a supergroup message.
TopicOf(update) == IF update.chat_type = "supergroup" THEN update.thread ELSE 0

\* C26 (as stated): whenever /setrepo has replied that the repository was
\* connected successfully, the subscription (user, repository, chat, topic)
\* is in the store, and the lookup an event for that repository makes
\* returns a row for that chat and topic.
C26_SuccessReplyMeansStored ==
    (last.name = "setrepo" /\ last.reply = "success")
    => /\ \E i \in 1..Len(connections) :
              /\ connections[i].Telegram_Id = last.update.user
              /\ connections[i].Repo_Name = NamedRepository(last.update)
              /\ connections[i].Chat_Id = last.update.chat_id
              /\ connections[i].Topic_Id = TopicOf(last.update)
       /\ LET found == get_user_repo_connections_by_repo(
                           Database(TRUE, connections), NamedRepository(last.update))
          IN  \E i \in 1..Len(found) :
                  /\ found[i].Chat_Id = last.update.chat_id
                  /\ MessageThreadId(found[i]) = TopicOf(last.update)

\* C27 (as stated): whenever /removerepo has replied that the connection was
\* removed, the store holds no subscription of that user for that repository
\* in that chat and topic, and the lookup an event for that repository makes
\* returns no such row.
C27_RemovedReplyMeansAbsent ==
    (last.name = "removerepo" /\ last.reply = "removed")
    => /\ \A i \in 1..Len(connections) : ~IsSubscriptionOf(connections[i], last.update)
       /\ LET found == get_user_repo_connections_by_repo(
                           Database(TRUE, connections), last.update.args[1])
          IN  \A i \in 1..Len(found) : ~IsSubscriptionOf(found[i], last.update)

\* The subscription (user, repository, chat, topic) a /setrepo asks for is
\* among the rows.
HoldsSubscriptionOf(rows, update) ==
    /\ update.args # <<>>
    /\ \E i \in 1..Len(rows) :
           /\ rows[i].Telegram_Id = update.user
           /\ rows[i].Repo_Name = NamedRepository(update)
           /\ rows[i].Chat_Id = update.chat_id
           /\ rows[i].Topic_Id = TopicOf(update)

\* C28 (as stated): a /setrepo for a (user, repository, chat, topic) that is
\* stored replies that the repository is already connected, changes nothing
\* in the store and makes no upstream webhook request, whether or not the
\* earlier /setrepo installed its webhook.
C28_RepeatedSetRepoIsNoOp ==
    [][ ( /\ last = NoCommand
          /\ last'.name = "setrepo"
          /\ HoldsSubscriptionOf(connections, last'.update) )
        => ( /\ last'.reply = "already"
             /\ connections' = connections
             /\ \A k \in 1..Len(last'.steps) :
                    last'.steps[k] \notin {"store_write", "upstream"} ) ]_vars

\* ---------------------------------------------------------- OAuth claims

\* The callback cannot succeed: code or state is missing, the exchange gives
\* no access token or times out, the user lookup gives no login, the state is
\* no number (it holds a character that is no digit, sign, blank or
\* underscore), or the store cannot be written.
CannotSucceed(c) ==
    \/ ~c.query.code
    \/ c.query.state = <<>>
    \/ c.query.timeout
    \/ c.query.access_token = 0
    \/ c.query.login = 0
    \/ \E i \in 1..Len(c.query.state) :
           c.query.state[i] \notin (48..57) \cup {43, 45, 32, 95}
    \/ ~c.up

\* C29: a GET /callback is answered 200, 400 or 500; one that cannot succeed
\* is answered 400 or 500, never 200; and every callback not answered 200
\* leaves the stored credentials as they were.
C29_FailedCallbackChangesNothing ==
    [][ (last = NoCommand /\ last'.name = "callback")
        => /\ last'.status \in {200, 400, 500}
           /\ CannotSucceed(last'.update) => last'.status \in {400, 500}
           /\ last'.status # 200 => users' = users ]_vars

\* C29 witness: with a credential stored, a callback holding code, state,
\* token and login was answered 500 because the store could not be written,
\* and the credential stored is the one granted before.
C29_Witness ==
    /\ last.name = "callback"
    /\ last.status = 500
    /\ ~last.update.up
    /\ ~CannotSucceed([last.update EXCEPT !.up = TRUE])
    /\ users # <<>>
    /\ \E i \in 1..Len(users) :
           /\ users[i].Telegram_Id = ParseInt(last.update.query.state).value
           /\ users[i].Github_Token # last.update.query.access_token

\* ------------------------------------------------------- delivery claims

\* C30: a delivery submitted while BotLoop is set is eventually attempted by
\* the loop, provided the loop keeps running, and exactly once: it leaves
\* the scheduled sends only by being attempted, its attempt starts only from
\* there, and an attempt that ended is not scheduled again.  This holds of a
\* delivery submitted before run_polling has started the loop as well.
C30_SubmittedIsAttemptedOnce ==
    /\ Watched(ready) ~> Watched(inflight)
    /\ [][ /\ (Watched(ready) /\ ~Watched(ready')) => Watched(inflight')
           /\ (Watched(inflight') /\ ~Watched(inflight)) =>
                  (Watched(ready) /\ ~Watched(ready'))
           /\ (Watched(inflight) /\ ~Watched(inflight')) => ~Watched(ready')
           /\ Cardinality({i \in 1..Len(ready') : ready'[i].watched})
                + Cardinality({i \in 1..Len(inflight') : inflight'[i].watched}) <= 1
         ]_vars

\* C30 witness: a delivery was submitted after BotLoop was assigned and
\* before the loop started polling, and waits on the loop.
C30_Witness ==
    /\ BotLoop = "loop"
    /\ mainpc = "loop_assigned"
    /\ Watched(ready)

====
